---- MODULE Spec2Model ----
(***************************************************************************)
(* Verification model of the systemd-boot installer of bootspec-secureboot *)
(* (installer/src): the generation limit, the reconciliation planner       *)
(* (create_plan), the executor arms of consume_plan, pruning of old files  *)
(* (remove_old_files) and the boot manager version comparison.             *)
(***************************************************************************)
EXTENDS Integers, Sequences, FiniteSets, TLC

VARIABLES
    args,        \* Args: install, signing_info, configuration_limit, toplevel, ...
    gens,        \* system_generations, ascending by idx (util::all_generations)
    wanted,      \* wanted_generations handed to PlanArgs
    defgen,      \* PlanArgs.default_generation
    identified,  \* PlanArgs.identified_files: [to_sign, to_replace]
    plan,        \* SystemdBootPlan: Vec<SystemdBootPlanState>
    stage,       \* where the caller is: "init", "limited", "planned", "running", "done", "failed"
    pc,          \* index into plan of the step consume_plan handles next (0: no plan yet)
    iter,        \* index into the current step's inner `for` loop (0: not started)
    fs,          \* [generated_entries |-> tree, esp |-> tree]
    fs0,         \* history: fs as it was when the run started
    cmds,        \* the external commands run so far, in order
    probes,      \* what `bootctl status` / `bootctl --version` report: [installed, tool]
    call         \* last call of a pure function: [fn, ret, ...]

vars == <<args, gens, wanted, defgen, identified, plan, stage, pc, iter, fs, fs0, cmds, probes, call>>

----------------------------------------------------------------------------
(* Bounds of the model.                                                    *)

\* generations on the system: idx 1..MaxGens
MaxGens == 3
\* configuration_limit ranges over None and 0..MaxLimit
MaxLimit == 4
\* length of IdentifiedFiles.to_sign
MaxSign == 2
\* versions reported by the probes: 0..MaxVersion
MaxVersion == 4
\* files a tree holds under loader/entries and efi/nixos together
MaxTreeFiles == 2

----------------------------------------------------------------------------
(* Option<T>: None is the empty sequence, Some(x) the sequence holding x.   *)

None == <<>>
Some(x) == <<x>>
IsSome(o) == o # <<>>
Unwrap(o) == o[1]

Min(a, b) == IF a < b THEN a ELSE b

\* usize::saturating_sub
SaturatingSub(a, b) == IF b > a THEN 0 ELSE a - b

\* Iterator::skip(k).collect()
Skip(s, k) == SubSeq(s, k + 1, Len(s))

----------------------------------------------------------------------------
(* File names, as sequences of characters (the entry pattern is matched    *)
(* character by character).                                                *)

Digits == {"0", "1", "2", "3", "4", "5", "6", "7", "8", "9"}

NIXOS_ == <<"n", "i", "x", "o", "s", "-">>
GENERATION_ == <<"g", "e", "n", "e", "r", "a", "t", "i", "o", "n", "-">>
CONF == <<"c", "o", "n", "f">>
DOT == <<".">>

\* the character of one decimal digit
Digit(d) ==
    CASE d = 0 -> "0" [] d = 1 -> "1" [] d = 2 -> "2" [] d = 3 -> "3"
      [] d = 4 -> "4" [] d = 5 -> "5" [] d = 6 -> "6" [] d = 7 -> "7"
      [] d = 8 -> "8" [] OTHER -> "9"

RECURSIVE Dec(_)
\* the digits of a number in decimal (format!("{}", idx))
Dec(n) == IF n < 10 THEN <<Digit(n)>> ELSE Dec(n \div 10) \o <<Digit(n % 10)>>

\* format!("nixos-generation-{}.conf", idx): the entry file of a generation of the
\* default profile (install() lists all_generations(None))
ConfFilename(idx) == NIXOS_ \o GENERATION_ \o Dec(idx) \o DOT \o CONF

\* s holds the literal lit at position i
LitAt(s, i, lit) ==
    /\ i >= 1
    /\ i + Len(lit) - 1 <= Len(s)
    /\ SubSeq(s, i, i + Len(lit) - 1) = lit

\* "(?:(?P<profile>[^-]+)-)?" matched from position i up to (excluding) position j
OptProfileAt(s, i, j) ==
    \/ j = i
    \/ /\ j >= i + 2
       /\ j - 1 <= Len(s)
       /\ s[j - 1] = "-"
       /\ \A k \in i..(j - 2) : s[k] # "-"

\* "(?P<generation>\d+)" matched from position j up to (excluding) position e
DigitsAt(s, j, e) ==
    /\ e >= j + 1
    /\ e - 1 <= Len(s)
    /\ \A k \in j..(e - 1) : s[k] \in Digits

\* "." of a regex: any character but a line feed
AnyChar(c) == c # "\n"

\* the pattern matched with its first character at i: "nixos-", the optional
\* profile, "generation-", the digits, one arbitrary character, "conf"
EntryReAt(s, i) ==
    /\ LitAt(s, i, NIXOS_)
    /\ \E j \in (i + Len(NIXOS_))..(Len(s) + 1) :
         /\ OptProfileAt(s, i + Len(NIXOS_), j)
         /\ LitAt(s, j, GENERATION_)
         /\ \E e \in (j + Len(GENERATION_) + 1)..Len(s) :
              /\ DigitsAt(s, j + Len(GENERATION_), e)
              /\ AnyChar(s[e])
              /\ LitAt(s, e + 1, CONF)

\* ENTRY_RE.is_match(name): Regex::is_match searches the text for a match anywhere
\* in it, the pattern carries no ^ or $ anchor
ENTRY_RE_is_match(s) == \E i \in 1..Len(s) : EntryReAt(s, i)

\* The managed-entry naming pattern nixos-[<profile>-]generation-<N>.conf as a
\* pattern of the whole file name
ManagedEntryName(s) ==
    \E j \in (1 + Len(NIXOS_))..(Len(s) + 1) :
       /\ LitAt(s, 1, NIXOS_)
       /\ OptProfileAt(s, 1 + Len(NIXOS_), j)
       /\ LitAt(s, j, GENERATION_)
       /\ \E e \in (j + Len(GENERATION_) + 1)..Len(s) :
            /\ DigitsAt(s, j + Len(GENERATION_), e)
            /\ LitAt(s, e, DOT \o CONF)
            /\ e + Len(CONF) = Len(s)

----------------------------------------------------------------------------
(* Generations.                                                            *)

\* the hashes of the kernel / initrd store paths the model's generations use
Hashes == {"a", "b"}

KernelFilename(h) == <<h, "-", "k", ".", "e", "f", "i">>
InitrdFilename(h) == <<h, "-", "i", ".", "e", "f", "i">>

\* the store path a generation link resolves to ("1", "2", ... as in the tests)
StorePath(idx) == Dec(idx)[1]

\* struct Generation of generation idx whose kernel and initrd carry hash h
Generation(idx, h) ==
    [idx |-> idx,
     profile |-> None,
     path |-> StorePath(idx),
     conf_filename |-> ConfFilename(idx),
     kernel_filename |-> KernelFilename(h),
     initrd_filename |-> InitrdFilename(h)]

RECURSIVE SortByIdx(_)
\* generations.sort_by(|a, b| a.idx.cmp(&b.idx)), idx unique per profile
SortByIdx(S) ==
    IF S = {} THEN <<>>
    ELSE LET m == CHOOSE g \in S : \A o \in S : o.idx <= g.idx
         IN  SortByIdx(S \ {m}) \o <<m>>

\* the lists all_generations can return: for every set of indices and every
\* assignment of kernel hashes, the generations in ascending order of idx
SystemGenerations ==
    { SortByIdx({Generation(i, h[i]) : i \in I}) :
        I \in SUBSET (1..MaxGens), h \in [1..MaxGens -> Hashes] }

\* the mutant of wanted_generations: the first `limit` generations are kept
wanted_generations_first(generations, configuration_limit) ==
    IF IsSome(configuration_limit)
    THEN SubSeq(generations, 1, Min(Unwrap(configuration_limit), Len(generations)))
    ELSE generations

\* util::wanted_generations: skip all but the last `limit` generations
wanted_generations(generations, configuration_limit) ==
    LET generations_len == Len(generations)
    IN  IF IsSome(configuration_limit)
        THEN LET limit == Unwrap(configuration_limit)
             IN  Skip(generations, SaturatingSub(generations_len, limit))
        ELSE generations

----------------------------------------------------------------------------
(* The plan.                                                               *)

\* Path::join
Join(root, rel) == <<root, rel>>

\* a path below a root: the directory and the file name, character by character
Rel(dir, name) == <<dir, name>>

EFI_NIXOS == "efi/nixos"
LOADER_ENTRIES == "loader/entries"

LOADER_CONF == Rel("loader", <<"l", "o", "a", "d", "e", "r", ".", "c", "o", "n", "f">>)
SYSTEMD_BOOT_EFI ==
    Rel("EFI/systemd",
        <<"s", "y", "s", "t", "e", "m", "d", "-", "b", "o", "o", "t", "x", "6", "4", ".", "e", "f", "i">>)
BOOTX64_EFI == Rel("EFI/BOOT", <<"B", "O", "O", "T", "X", "6", "4", ".", "E", "F", "I">>)

\* Path::exists of <esp>/loader/loader.conf
LoaderExists(esp) == IsSome(fs[esp].loader_conf)

\* let mut plan = vec![SystemdBootPlanState::Start]
PlanStart == <<[kind |-> "Start"]>>

\* the mutant of PlanBoot: both pushes happen
PlanBootBoth(pa) ==
    <<[kind |-> "Install", loader |-> None, bootctl |-> pa.bootctl, esp |-> pa.esp,
       can_touch_efi_vars |-> pa.args.can_touch_efi_vars],
      [kind |-> "Update", bootctl |-> pa.bootctl, esp |-> pa.esp]>>

\* if args.install { push Install } else { push Update }
PlanBoot(pa) ==
    IF pa.args.install
    THEN LET loader == Join(pa.esp, LOADER_CONF)
         IN  <<[kind |-> "Install",
                loader |-> IF LoaderExists(pa.esp) THEN Some(loader) ELSE None,
                bootctl |-> pa.bootctl,
                esp |-> pa.esp,
                can_touch_efi_vars |-> pa.args.can_touch_efi_vars]>>
    ELSE <<[kind |-> "Update", bootctl |-> pa.bootctl, esp |-> pa.esp]>>

\* the mutant of PlanSign: the boot manager's own binaries are left out
PlanSignIdentifiedOnly(pa) ==
    IF IsSome(pa.args.signing_info)
    THEN <<[kind |-> "SignFiles",
            signing_info |-> Unwrap(pa.args.signing_info),
            to_sign |-> pa.identified_files.to_sign]>>
    ELSE <<>>

\* if let Some(signing_info) = &args.signing_info { push SignFiles }
PlanSign(pa) ==
    IF IsSome(pa.args.signing_info)
    THEN LET to_sign == <<Join(pa.esp, SYSTEMD_BOOT_EFI), Join(pa.esp, BOOTX64_EFI)>>
                        \o pa.identified_files.to_sign
         IN  <<[kind |-> "SignFiles",
                signing_info |-> Unwrap(pa.args.signing_info),
                to_sign |-> to_sign]>>
    ELSE <<>>

PlanPrune(pa) ==
    <<[kind |-> "PruneFiles",
       wanted_generations |-> pa.wanted_generations,
       paths |-> <<pa.args.generated_entries, pa.esp>>]>>

PlanReplace(pa) ==
    <<[kind |-> "ReplaceFiles",
       signing_info |-> pa.args.signing_info,
       to_replace |-> pa.identified_files.to_replace]>>

\* the mutant of PlanWriteLoader: the step is pushed only when a wanted
\* generation is the toplevel, with the index of the newest such generation
PlanWriteLoaderIfFound(pa) ==
    LET wg == pa.wanted_generations
        found == {i \in 1..Len(wg) : wg[i].path = pa.args.toplevel}
    IN  IF found = {} THEN <<>>
        ELSE LET last == CHOOSE i \in found : \A j \in found : j <= i
             IN  <<[kind |-> "WriteLoader",
                    path |-> Join(pa.args.generated_entries, LOADER_CONF),
                    timeout |-> pa.args.timeout,
                    index |-> wg[last].idx,
                    editor |-> pa.args.editor,
                    console_mode |-> pa.args.console_mode]>>

\* the mutant of PlanWriteLoader: the step writes the ESP's loader.conf
PlanWriteLoaderToEsp(pa) ==
    <<[kind |-> "WriteLoader",
       path |-> Join(pa.esp, LOADER_CONF),
       timeout |-> pa.args.timeout,
       index |-> pa.default_generation.idx,
       editor |-> pa.args.editor,
       console_mode |-> pa.args.console_mode]>>

PlanWriteLoader(pa) ==
    <<[kind |-> "WriteLoader",
       path |-> Join(pa.args.generated_entries, LOADER_CONF),
       timeout |-> pa.args.timeout,
       index |-> pa.default_generation.idx,
       editor |-> pa.args.editor,
       console_mode |-> pa.args.console_mode]>>

PlanCopyToEsp(pa) ==
    <<[kind |-> "CopyToEsp", generated_entries |-> pa.args.generated_entries, esp |-> pa.esp]>>

PlanSyncfs(pa) == <<[kind |-> "Syncfs", esp |-> pa.esp]>>

PlanEnd == <<[kind |-> "End"]>>

\* the mutant of create_plan: the staging tree is copied before the pruning
create_plan_copy_first(pa) ==
    PlanStart \o PlanBoot(pa) \o PlanSign(pa) \o PlanCopyToEsp(pa) \o PlanPrune(pa)
    \o PlanReplace(pa) \o PlanWriteLoader(pa) \o PlanSyncfs(pa) \o PlanEnd

\* plan.rs create_plan: the steps, in the order of the pushes
create_plan(pa) ==
    PlanStart \o PlanBoot(pa) \o PlanSign(pa) \o PlanPrune(pa) \o PlanReplace(pa)
    \o PlanWriteLoader(pa) \o PlanCopyToEsp(pa) \o PlanSyncfs(pa) \o PlanEnd

\* the PlanArgs the caller builds for the ESP `esp`
PlanArgs(esp) ==
    [args |-> args,
     bootctl |-> args.bootctl,
     esp |-> esp,
     wanted_generations |-> wanted,
     default_generation |-> defgen,
     identified_files |-> identified]

----------------------------------------------------------------------------
(* The state the planner and the executor work on.                         *)

GENERATED_ENTRIES == "generated_entries"
ESP == "esp"

SIGNING_INFO ==
    [signing_key |-> "db.key", signing_cert |-> "db.crt",
     sbsign |-> "sbsign", sbverify |-> "sbverify"]

\* a directory without entries
EmptyDir == [n \in {} |-> "x"]

\* a tree (the staging tree or an ESP): whether its root, its efi/nixos and its
\* loader/entries directories exist, the files of the two directories (name ->
\* content) and the content of loader/loader.conf
Tree(exists, has_efi, has_entries, efi, entries, loader) ==
    [exists |-> exists,
     has_efi_nixos |-> has_efi,
     has_loader_entries |-> has_entries,
     efi_nixos |-> efi,
     loader_entries |-> entries,
     loader_conf |-> loader]

EmptyTree == Tree(TRUE, TRUE, TRUE, EmptyDir, EmptyDir, None)

\* the Args of the tests' scaffold, with the fields the model varies as parameters
Args(install, signing_info, configuration_limit, toplevel) ==
    [toplevel |-> toplevel,
     dry_run |-> FALSE,
     generated_entries |-> GENERATED_ENTRIES,
     timeout |-> Some(1),
     console_mode |-> "max",
     configuration_limit |-> configuration_limit,
     editor |-> FALSE,
     install |-> install,
     esp |-> <<ESP>>,
     can_touch_efi_vars |-> FALSE,
     bootctl |-> "bootctl",
     unified_efi |-> FALSE,
     signing_info |-> signing_info]

Limits == {None} \cup {Some(n) : n \in 0..MaxLimit}

\* the toplevel the caller passes: the store path of a generation, or a path
\* that is no generation's ("toplevel" in the tests' scaffold)
Toplevels == {StorePath(i) : i \in 1..MaxGens} \cup {"toplevel"}

\* the generated .efi files File Identification can report
SignableFiles ==
    {Join(GENERATED_ENTRIES, Rel(EFI_NIXOS, KernelFilename("a"))),
     Join(GENERATED_ENTRIES, Rel(EFI_NIXOS, InitrdFilename("a")))}

SeqsUpTo(S, n) == UNION {[1..k -> S] : k \in 0..n}

ReplaceLists ==
    {<<>>,
     <<[generated_loc |-> Join(GENERATED_ENTRIES, Rel(EFI_NIXOS, KernelFilename("a"))),
        esp_loc |-> Join(ESP, Rel(EFI_NIXOS, KernelFilename("a")))]>>}

Range(s) == {s[i] : i \in 1..Len(s)}

NoCall == [fn |-> "none"]
NoProbes == [installed |-> None, tool |-> None]

----------------------------------------------------------------------------
(* Planning: the caller limits the generations, then builds the plan.      *)

\* the generation lists of the planning runs: every set of indices, one kernel
InitPlan ==
    /\ args \in {Args(i, s, l, t) :
                   i \in BOOLEAN, s \in {None, Some(SIGNING_INFO)},
                   l \in Limits, t \in Toplevels}
    /\ gens \in {SortByIdx({Generation(i, "a") : i \in I}) : I \in SUBSET (1..MaxGens)}
    /\ wanted = <<>>
    /\ defgen = None
    /\ identified \in {[to_sign |-> ts, to_replace |-> tr] :
                         ts \in SeqsUpTo(SignableFiles, MaxSign), tr \in ReplaceLists}
    /\ plan = <<>>
    /\ stage = "init"
    /\ pc = 0
    /\ iter = 0
    /\ fs \in {[generated_entries |-> EmptyTree,
                esp |-> Tree(TRUE, TRUE, TRUE, EmptyDir, EmptyDir, l)] :
                 l \in {None, Some("old")}}
    /\ fs0 = fs
    /\ cmds = <<>>
    /\ probes = NoProbes
    /\ call = NoCall

\* let wanted_generations = util::wanted_generations(system_generations, args.configuration_limit)
WantedGenerations ==
    /\ stage = "init"
    /\ wanted' = wanted_generations(gens, args.configuration_limit)
    /\ stage' = "limited"
    /\ UNCHANGED <<args, gens, defgen, identified, plan, pc, iter, fs, fs0, cmds, probes, call>>

\* let plan = create_plan(plan_args).unwrap(), the default generation being one
\* of the wanted generations as in the tests' scaffold
CreatePlan ==
    /\ stage = "limited"
    /\ \E dg \in Range(wanted) :
         /\ defgen' = Some(dg)
         /\ plan' = create_plan([PlanArgs(ESP) EXCEPT !.default_generation = dg])
    /\ stage' = "planned"
    /\ pc' = 1
    /\ UNCHANGED <<args, gens, wanted, identified, iter, fs, fs0, cmds, probes, call>>

NextPlan == WantedGenerations \/ CreatePlan

SpecPlan == InitPlan /\ [][NextPlan]_vars

----------------------------------------------------------------------------
(* Pruning: remove_old_files and the PruneFiles arm of consume_plan.       *)

\* the mutant of get_required_file_paths: the initrd is left out
get_required_file_paths_no_initrd(generations) ==
    IF generations = <<>> THEN <<>>
    ELSE [i \in 1..(2 * Len(generations)) |->
            LET g == generations[(i + 1) \div 2]
            IN  IF i % 2 = 1 THEN g.conf_filename ELSE g.kernel_filename]

\* mod.rs get_required_file_paths: conf, kernel and initrd of every generation
get_required_file_paths(generations) ==
    IF generations = <<>> THEN <<>>
    ELSE [i \in 1..(3 * Len(generations)) |->
            LET g == generations[(i + 2) \div 3]
            IN  CASE i % 3 = 1 -> g.conf_filename
                  [] i % 3 = 2 -> g.kernel_filename
                  [] OTHER -> g.initrd_filename]

\* the mutant of IsRequired: no file is required
IsRequiredNever(required_file_paths, name) == FALSE

\* required_file_paths.iter().any(|e| e == name)
IsRequired(required_file_paths, name) ==
    \E i \in 1..Len(required_file_paths) : required_file_paths[i] = name

\* the loader/entries files the first loop of remove_old_files removes: those
\* whose name ENTRY_RE matches and that are not required
OldEntries(required_file_paths, t) ==
    {name \in DOMAIN t.loader_entries :
        /\ ENTRY_RE_is_match(name)
        /\ ~IsRequired(required_file_paths, name)}

\* the mutant of OldEfi: nothing under efi/nixos is old
OldEfiNothing(required_file_paths, t) == {}

\* the efi/nixos files the second loop of remove_old_files removes: those that
\* are not required
OldEfi(required_file_paths, t) ==
    {name \in DOMAIN t.efi_nixos : ~IsRequired(required_file_paths, name)}

\* directory d without the files named in S (fs::remove_file of each)
RemoveFiles(d, S) == [name \in (DOMAIN d) \ S |-> d[name]]

\* the mutant of NothingToPrune: only a missing root is skipped
NothingToPruneRoot(t) == ~t.exists

\* !path.exists() || !efi_nixos.exists() || !loader_entries.exists()
NothingToPrune(t) == ~t.exists \/ ~t.has_efi_nixos \/ ~t.has_loader_entries

\* mod.rs remove_old_files returning Ok: the tree it leaves
remove_old_files(generations, t) ==
    IF NothingToPrune(t) THEN t
    ELSE LET required_file_paths == get_required_file_paths(generations)
         IN  [t EXCEPT
                !.loader_entries = RemoveFiles(@, OldEntries(required_file_paths, t)),
                !.efi_nixos = RemoveFiles(@, OldEfi(required_file_paths, t))]

\* mod.rs remove_old_files returning Err (read_dir, a directory entry or
\* remove_file failed): the trees it can leave. read_dir lists in no fixed order,
\* so any part of the old entries is gone when the first loop fails, and all old
\* entries and any part of the old artifacts when the second loop fails.
remove_old_files_failed(generations, t) ==
    IF NothingToPrune(t) THEN {}
    ELSE LET required_file_paths == get_required_file_paths(generations)
             oldEntries == OldEntries(required_file_paths, t)
             oldEfi == OldEfi(required_file_paths, t)
         IN  {[t EXCEPT !.loader_entries = RemoveFiles(@, D)] : D \in SUBSET oldEntries}
             \cup
             {[t EXCEPT !.loader_entries = RemoveFiles(@, oldEntries),
                        !.efi_nixos = RemoveFiles(@, D)] : D \in SUBSET oldEfi}

\* the mutant of Running: the loop goes on after an error
RunningOrFailed == stage \in {"running", "failed"}

\* consume_plan is in its loop over the steps: no step has returned an error
Running == stage = "running"

\* consume_plan moves on to the step after plan[pc]; the run is over after the last
StepDone ==
    /\ pc' = pc + 1
    /\ iter' = 0
    /\ stage' = IF pc + 1 > Len(plan) THEN "done" ELSE "running"

\* consume_plan returns the error of plan[pc]
StepFailed ==
    /\ stage' = "failed"
    /\ UNCHANGED <<pc, iter>>

\* consume_plan, PruneFiles arm, one turn of `for path in paths`:
\* super::remove_old_files(wanted_generations, path)?
PruneFilesPath ==
    /\ Running
    /\ pc \in 1..Len(plan)
    /\ plan[pc].kind = "PruneFiles"
    /\ iter < Len(plan[pc].paths)
    /\ LET step == plan[pc]
           path == step.paths[iter + 1]
       IN  \/ /\ fs' = [fs EXCEPT ![path] = remove_old_files(step.wanted_generations, fs[path])]
              /\ IF iter + 1 = Len(step.paths)
                 THEN StepDone
                 ELSE /\ iter' = iter + 1
                      /\ UNCHANGED <<pc, stage>>
           \/ /\ \E t \in remove_old_files_failed(step.wanted_generations, fs[path]) :
                    fs' = [fs EXCEPT ![path] = t]
              /\ StepFailed
    /\ UNCHANGED <<args, gens, wanted, defgen, identified, plan, fs0, cmds, probes, call>>

\* names of loader/entries files: the entries of generations 1 and 2, a boot
\* entry of the user and the user's backup copy of a generated entry
USER_ENTRY == <<"m", "e", "m", "t", "e", "s", "t">> \o DOT \o CONF
BACKUP_ENTRY == ConfFilename(1) \o <<".", "b", "a", "k">>
EntryNames == {ConfFilename(1), ConfFilename(2), USER_ENTRY, BACKUP_ENTRY}

\* names of efi/nixos files: kernels and initrds, and a file of the user
USER_EFI == <<"m", "e", "m", "t", "e", "s", "t", ".", "e", "f", "i">>
EfiNames == {KernelFilename("a"), InitrdFilename("a"), KernelFilename("b"), USER_EFI}

\* a directory holding the files named in S, each with content c
Dir(S, c) == [name \in S |-> c]

\* the trees of the pruning runs: a missing root, a missing efi/nixos, a missing
\* loader/entries, and every tree with at most MaxTreeFiles files
Trees(c) ==
    {Tree(FALSE, FALSE, FALSE, EmptyDir, EmptyDir, None),
     Tree(TRUE, FALSE, TRUE, EmptyDir, Dir({ConfFilename(1)}, c), None),
     Tree(TRUE, TRUE, FALSE, Dir({KernelFilename("a")}, c), EmptyDir, None)}
    \cup
    {Tree(TRUE, TRUE, TRUE, Dir(x[2], c), Dir(x[1], c), None) :
        x \in {y \in (SUBSET EntryNames) \X (SUBSET EfiNames) :
                 Cardinality(y[1]) + Cardinality(y[2]) <= MaxTreeFiles}}

\* the generation lists of the pruning runs: generations 1 and 2, present or
\* not, sharing their kernel and initrd or not
PruneGenerations ==
    {SortByIdx({Generation(i, h[i]) : i \in I}) :
        I \in SUBSET {1, 2}, h \in [{1, 2} -> Hashes]}

\* consume_plan is about to handle the PruneFiles step that create_plan pushed
InitPrune ==
    /\ args \in {Args(FALSE, None, l, StorePath(2)) : l \in {None, Some(0), Some(1)}}
    /\ gens \in PruneGenerations
    /\ wanted = wanted_generations(gens, args.configuration_limit)
    /\ defgen = None
    /\ identified = [to_sign |-> <<>>, to_replace |-> <<>>]
    /\ plan = PlanPrune(PlanArgs(ESP))
    /\ stage = "running"
    /\ pc = 1
    /\ iter = 0
    /\ fs \in {[generated_entries |-> g, esp |-> e] : g \in Trees("new"), e \in Trees("old")}
    /\ fs0 = fs
    /\ cmds = <<>>
    /\ probes = NoProbes
    /\ call = NoCall

NextPrune == PruneFilesPath

SpecPrune == InitPrune /\ [][NextPrune]_vars

----------------------------------------------------------------------------
(* The executor: consume_plan, its Start, Install and Update arms.         *)

\* Command::new(prog).args(args): the record kept of a command that was run
Command(prog, cmd_args) == [prog |-> prog, args |-> cmd_args]

\* SystemdVersion::detect_version: `bootctl --version`, then from_output
VersionCommand(bootctl) == Command(bootctl, <<"--version">>)

\* run_update: args = ["update", "--path", esp]
UpdateCommand(bootctl, esp) == Command(bootctl, <<"update", "--path", esp>>)

\* run_install: args = ["install", "--path", esp] and "--no-variables" unless
\* can_touch_efi_vars
InstallCommand(bootctl, esp, can_touch_efi_vars) ==
    Command(bootctl,
            <<"install", "--path", esp>>
            \o (IF ~can_touch_efi_vars THEN <<"--no-variables">> ELSE <<>>))

\* consume_plan, Start arm: a trace line
ExecStart ==
    /\ stage = "planned"
    /\ pc \in 1..Len(plan)
    /\ plan[pc].kind = "Start"
    /\ StepDone
    /\ UNCHANGED <<args, gens, wanted, defgen, identified, plan, fs, fs0, cmds, probes, call>>

\* the boot manager's binaries as bootctl copies them: not signed
BOOT_IMAGE == [data |-> 1, sig |-> FALSE]

\* the loader.conf bootctl install writes when there is none
BOOTCTL_LOADER == <<"#", "t", "i", "m", "e", "o", "u", "t", " ", "3", "\n">>

\* the ESP's two directories of the boot manager's binaries, each holding its
\* binary with content c
BootBinaries(c) ==
    [efi_systemd |-> (SYSTEMD_BOOT_EFI[2] :> c), efi_boot |-> (BOOTX64_EFI[2] :> c)]

\* what a successful `bootctl install` or `bootctl update` can leave on the
\* ESP: the binaries as they were, or copied anew
bootctl_copies(f, esp) ==
    {f, [f EXCEPT ![esp] = BootBinaries(BOOT_IMAGE) @@ @]}

\* what a successful `bootctl install` can leave on the ESP: the binaries as
\* above, and a loader.conf of its own when there is none
bootctl_install(f, esp) ==
    bootctl_copies(f, esp)
    \cup (IF IsSome(f[esp].loader_conf) THEN {}
          ELSE {[g EXCEPT ![esp].loader_conf = Some(BOOTCTL_LOADER)] : g \in bootctl_copies(f, esp)})

\* consume_plan, Install arm: run_install(loader, bootctl, esp, can_touch_efi_vars)?
\* removes the loader.conf the planner saw, then runs `bootctl install`
ExecInstall ==
    /\ Running
    /\ pc \in 1..Len(plan)
    /\ plan[pc].kind = "Install"
    /\ LET step == plan[pc]
           removed == [fs EXCEPT ![step.esp].loader_conf = None]
           install == InstallCommand(step.bootctl, step.esp, step.can_touch_efi_vars)
       IN  \/ \* fs::remove_file(&loader)? fails
              /\ IsSome(step.loader)
              /\ StepFailed
              /\ UNCHANGED <<fs, cmds>>
           \/ \* the command cannot be run or exits with a failure
              /\ fs' = (IF IsSome(step.loader) THEN removed ELSE fs)
              /\ cmds' = Append(cmds, install)
              /\ StepFailed
           \/ \* the command succeeds
              /\ fs' \in bootctl_install(IF IsSome(step.loader) THEN removed ELSE fs, step.esp)
              /\ cmds' = Append(cmds, install)
              /\ StepDone
    /\ UNCHANGED <<args, gens, wanted, defgen, identified, plan, fs0, probes, call>>

\* consume_plan, Update arm: run_update(bootctl, esp)? probes the tool version
\* (an error when `bootctl --version` shows none), then runs `bootctl update`
ExecUpdate ==
    /\ Running
    /\ pc \in 1..Len(plan)
    /\ plan[pc].kind = "Update"
    /\ LET step == plan[pc]
           version == VersionCommand(step.bootctl)
           update == UpdateCommand(step.bootctl, step.esp)
       IN  \/ \* SystemdVersion::detect_version(bootctl)? fails
              /\ probes.tool = None
              /\ cmds' = Append(cmds, version)
              /\ StepFailed
              /\ UNCHANGED fs
           \/ \* the update command is run whatever version is installed
              /\ IsSome(probes.tool)
              /\ cmds' = cmds \o <<version, update>>
              /\ \/ \* the command cannot be run or exits with a failure
                    /\ StepFailed
                    /\ UNCHANGED fs
                 \/ /\ fs' \in bootctl_copies(fs, step.esp)
                    /\ StepDone
    /\ UNCHANGED <<args, gens, wanted, defgen, identified, plan, fs0, probes, call>>

\* what the probes can find: no version, or one of 0..MaxVersion
Versions == 0..MaxVersion
ProbeResults == {None} \cup {Some(v) : v \in Versions}

\* a run of the installer on one ESP, from the limited generations on: two
\* generations, the staging tree generated for them, an ESP that holds the
\* files of generation 1
InitRun ==
    /\ args \in {Args(i, None, l, StorePath(2)) : i \in BOOLEAN, l \in {None, Some(1)}}
    /\ gens = <<Generation(1, "a"), Generation(2, "b")>>
    /\ wanted = wanted_generations(gens, args.configuration_limit)
    /\ defgen = None
    /\ identified = [to_sign |-> <<>>, to_replace |-> <<>>]
    /\ plan = <<>>
    /\ stage = "limited"
    /\ pc = 0
    /\ iter = 0
    /\ fs \in {[generated_entries |->
                   Tree(TRUE, TRUE, TRUE,
                        Dir({KernelFilename("a"), InitrdFilename("a"),
                             KernelFilename("b"), InitrdFilename("b")}, "new"),
                        Dir({ConfFilename(1), ConfFilename(2)}, "new"),
                        None),
                esp |->
                   Tree(TRUE, TRUE, TRUE,
                        Dir({KernelFilename("a"), InitrdFilename("a")}, "old"),
                        Dir({ConfFilename(1), USER_ENTRY}, "old"),
                        l)] :
                 l \in {None, Some("old")}}
    /\ fs0 = fs
    /\ cmds = <<>>
    /\ probes \in [installed : ProbeResults, tool : ProbeResults]
    /\ call = NoCall

NextRun == CreatePlan \/ ExecStart \/ ExecInstall \/ ExecUpdate \/ PruneFilesPath

SpecRun == InitRun /\ [][NextRun]_vars

----------------------------------------------------------------------------
(* Version comparison.                                                     *)

\* Ord::cmp of two usize
Cmp(a, b) == IF a < b THEN "Less" ELSE IF a = b THEN "Equal" ELSE "Greater"

\* the mutant of bootloader_is_old: >= in place of >
bootloader_is_old_or_equal(bootloader_version, systemd_version) ==
    IF IsSome(bootloader_version)
    THEN systemd_version >= Unwrap(bootloader_version)
    ELSE FALSE

\* mod.rs bootloader_is_old (always Ok): the bool it returns
bootloader_is_old(bootloader_version, systemd_version) ==
    IF IsSome(bootloader_version)
    THEN LET old == systemd_version > Unwrap(bootloader_version)
         IN  old
    ELSE FALSE

\* impl PartialOrd<SystemdVersion> for SystemdBootVersion: partial_cmp
SystemdBootVersion_partial_cmp(self, other) == Some(Cmp(self.version, other.version))

\* impl PartialOrd<SystemdBootVersion> for SystemdVersion: partial_cmp
SystemdVersion_partial_cmp(self, other) == Some(Cmp(self.version, other.version))

\* impl PartialEq<SystemdVersion> for SystemdBootVersion: eq
SystemdBootVersion_eq(self, other) == self.version = other.version

\* impl PartialEq<SystemdBootVersion> for SystemdVersion: eq
SystemdVersion_eq(self, other) == self.version = other.version

\* PartialOrd::lt: a < b is partial_cmp(a, b) == Some(Less)
Lt(partial_cmp) == partial_cmp = Some("Less")

\* SystemdBootVersion::new / SystemdVersion::new
NewVersion(version) == [version |-> version]

\* the versions to compare: an installed version or none, a tool version
InitVersion ==
    /\ args = Args(FALSE, None, None, "toplevel")
    /\ gens = <<>>
    /\ wanted = <<>>
    /\ defgen = None
    /\ identified = [to_sign |-> <<>>, to_replace |-> <<>>]
    /\ plan = <<>>
    /\ stage = "init"
    /\ pc = 0
    /\ iter = 0
    /\ fs = [generated_entries |-> EmptyTree, esp |-> EmptyTree]
    /\ fs0 = fs
    /\ cmds = <<>>
    /\ probes \in [installed : ProbeResults, tool : {Some(v) : v \in Versions}]
    /\ call = NoCall

Unchanged_but_call ==
    UNCHANGED <<args, gens, wanted, defgen, identified, plan, stage, pc, iter, fs, fs0, cmds, probes>>

\* bootloader_is_old(bootloader_version, systemd_version)
CallBootloaderIsOld ==
    /\ call' = [fn |-> "bootloader_is_old",
                ret |-> bootloader_is_old(
                            IF IsSome(probes.installed) THEN probes.installed ELSE None,
                            Unwrap(probes.tool))]
    /\ Unchanged_but_call

\* SystemdBootVersion::new(b) < SystemdVersion::new(s)
CallBootLtSystemd ==
    /\ IsSome(probes.installed)
    /\ call' = [fn |-> "SystemdBootVersion < SystemdVersion",
                ret |-> Lt(SystemdBootVersion_partial_cmp(
                               NewVersion(Unwrap(probes.installed)),
                               NewVersion(Unwrap(probes.tool))))]
    /\ Unchanged_but_call

\* SystemdVersion::new(s) < SystemdBootVersion::new(b)
CallSystemdLtBoot ==
    /\ IsSome(probes.installed)
    /\ call' = [fn |-> "SystemdVersion < SystemdBootVersion",
                ret |-> Lt(SystemdVersion_partial_cmp(
                               NewVersion(Unwrap(probes.tool)),
                               NewVersion(Unwrap(probes.installed))))]
    /\ Unchanged_but_call

\* SystemdBootVersion::new(b) == SystemdVersion::new(s)
CallBootEqSystemd ==
    /\ IsSome(probes.installed)
    /\ call' = [fn |-> "SystemdBootVersion == SystemdVersion",
                ret |-> SystemdBootVersion_eq(NewVersion(Unwrap(probes.installed)),
                                              NewVersion(Unwrap(probes.tool)))]
    /\ Unchanged_but_call

\* SystemdVersion::new(s) == SystemdBootVersion::new(b)
CallSystemdEqBoot ==
    /\ IsSome(probes.installed)
    /\ call' = [fn |-> "SystemdVersion == SystemdBootVersion",
                ret |-> SystemdVersion_eq(NewVersion(Unwrap(probes.tool)),
                                          NewVersion(Unwrap(probes.installed)))]
    /\ Unchanged_but_call

NextVersion ==
    \/ CallBootloaderIsOld
    \/ CallBootLtSystemd
    \/ CallSystemdLtBoot
    \/ CallBootEqSystemd
    \/ CallSystemdEqBoot

SpecVersion == InitVersion /\ [][NextVersion]_vars

----------------------------------------------------------------------------
(* Files: contents, paths into the trees, reading and writing.             *)

\* the bytes of a file: its data and whether a signature is attached
File(data, sig) == [data |-> data, sig |-> sig]

\* the bytes of file c as one number
Bytes(c) == 2 * c.data + (IF c.sig THEN 1 ELSE 0)

\* the width of the checksum in this model
CrcBits == 2

\* CASTAGNOLI.checksum(bytes): a checksum narrower than the bytes, so that
\* different bytes can have the same checksum
Checksum(bytes) == bytes % (2 ^ CrcBits)

\* position of the last "." of name, 0 when there is none
LastDot(name) ==
    LET dots == {i \in 1..Len(name) : name[i] = "."}
    IN  IF dots = {} THEN 0 ELSE CHOOSE i \in dots : \A j \in dots : j <= i

\* Path::extension: what follows the last "." of the file name, None when
\* there is no "." or only a leading one
Extension(name) ==
    IF LastDot(name) <= 1 THEN None
    ELSE Some(SubSeq(name, LastDot(name) + 1, Len(name)))

EFI == <<"e", "f", "i">>
TMP == <<"t", "m", "p">>

\* path.extension() == Some(OsStr::new("efi"))
IsEfi(path) == Extension(path[2][2]) = Some(EFI)

\* the field of a tree that holds the files of directory dir
DirField(dir) ==
    CASE dir = EFI_NIXOS -> "efi_nixos"
      [] dir = LOADER_ENTRIES -> "loader_entries"
      [] dir = "EFI/systemd" -> "efi_systemd"
      [] OTHER -> "efi_boot"

\* fs::read(path) on the file system f: the content, None when there is no file
ReadFile(f, path) ==
    LET t == f[path[1]]
        dir == path[2][1]
        name == path[2][2]
    IN  IF ~t.exists THEN None
        ELSE IF dir = "loader"
             THEN (IF name = LOADER_CONF[2] THEN t.loader_conf ELSE None)
             ELSE IF DirField(dir) \in DOMAIN t /\ name \in DOMAIN t[DirField(dir)]
                  THEN Some(t[DirField(dir)][name])
                  ELSE None

\* the file system f after path is written with content c (missing parent
\* directories are there afterwards)
WriteFile(f, path, c) ==
    LET t == f[path[1]]
        dir == path[2][1]
        name == path[2][2]
        made == [t EXCEPT !.exists = TRUE,
                          !.has_efi_nixos = @ \/ dir = EFI_NIXOS,
                          !.has_loader_entries = @ \/ dir = LOADER_ENTRIES]
    IN  [f EXCEPT ![path[1]] =
            IF dir = "loader"
            THEN [made EXCEPT !.loader_conf = Some(c)]
            ELSE [made EXCEPT ![DirField(dir)] = (name :> c) @@ @]]

\* fs::remove_file(path) on the file system f
RemoveFile(f, path) ==
    LET t == f[path[1]]
        dir == path[2][1]
        name == path[2][2]
    IN  [f EXCEPT ![path[1]] =
            IF dir = "loader"
            THEN [t EXCEPT !.loader_conf = None]
            ELSE [t EXCEPT ![DirField(dir)] = RemoveFiles(@, {name})]]

RECURSIVE SetToSeq(_)
\* the elements of a set in the order a directory walk yields them
SetToSeq(S) ==
    IF S = {} THEN <<>>
    ELSE LET x == CHOOSE x \in S : TRUE
         IN  <<x>> \o SetToSeq(S \ {x})

\* the directories of a tree that hold files
TreeDirs(t) == {d \in {EFI_NIXOS, LOADER_ENTRIES, "EFI/systemd", "EFI/BOOT"} : DirField(d) \in DOMAIN t}

\* glob("<root>/**/*") without the directories: the files below a tree's root,
\* as paths relative to the root
TreeFiles(t) ==
    IF ~t.exists THEN {}
    ELSE UNION {{Rel(d, name) : name \in DOMAIN t[DirField(d)]} : d \in TreeDirs(t)}
         \cup (IF IsSome(t.loader_conf) THEN {LOADER_CONF} ELSE {})

----------------------------------------------------------------------------
(* File Identification: IdentifiedFiles::new.                              *)

\* files.rs IdentifiedFiles::new(generated_entries, esp) on the file system f
IdentifiedFiles_new(f, generated_entries, esp) ==
    LET generated_files == SetToSeq(TreeFiles(f[generated_entries]))
        esp_files == TreeFiles(f[esp])
        InEsp(rel) == rel \in esp_files
        NotInEsp(rel) == rel \notin esp_files
        to_add == SelectSeq(generated_files, NotInEsp)
        both == SelectSeq(generated_files, InEsp)
        to_replace == [i \in 1..Len(both) |->
                          [generated_loc |-> Join(generated_entries, both[i]),
                           esp_loc |-> Join(esp, both[i])]]
        chained == [i \in 1..Len(to_add) |-> Join(generated_entries, to_add[i])]
                   \o [i \in 1..Len(to_replace) |-> to_replace[i].generated_loc]
    IN  [to_sign |-> SelectSeq(chained, IsEfi),
         to_replace |-> to_replace]

----------------------------------------------------------------------------
(* The loader configuration.                                               *)

NL == <<"\n">>
TIMEOUT_ == <<"t", "i", "m", "e", "o", "u", "t", " ">>
DEFAULT_ == <<"d", "e", "f", "a", "u", "l", "t", " ">>
EDITOR_0 == <<"e", "d", "i", "t", "o", "r", " ", "0">>
CONSOLE_MODE_ == <<"c", "o", "n", "s", "o", "l", "e", "-", "m", "o", "d", "e", " ">>

\* the characters of a console mode
ModeChars(console_mode) ==
    CASE console_mode = "max" -> <<"m", "a", "x">>
      [] console_mode = "auto" -> <<"a", "u", "t", "o">>
      [] OTHER -> <<"k", "e", "e", "p">>

\* the mutant of EditorLine: the line is written whatever `editor` is
EditorLineAlways(editor) == EDITOR_0 \o NL

\* create_loader_conf: if !editor { writeln!(s, "editor 0")?; }
EditorLine(editor) == IF ~editor THEN EDITOR_0 \o NL ELSE <<>>

\* mod.rs create_loader_conf: the text of loader.conf
create_loader_conf(timeout, idx, editor, console_mode) ==
    (IF IsSome(timeout) THEN TIMEOUT_ \o Dec(Unwrap(timeout)) \o NL ELSE <<>>)
    \o DEFAULT_ \o ConfFilename(idx) \o NL
    \o EditorLine(editor)
    \o CONSOLE_MODE_ \o ModeChars(console_mode) \o NL

\* the inputs of create_loader_conf: the timeouts, the indices (those of the
\* tests among them) and the console modes
MaxTimeout == 2
ConfIndices == {1, 9, 10, 125, 126}
ConsoleModes == {"max", "auto", "keep"}

\* create_loader_conf is about to be called with some inputs
InitConf ==
    /\ args = Args(FALSE, None, None, "toplevel")
    /\ gens = <<>>
    /\ wanted = <<>>
    /\ defgen = None
    /\ identified = [to_sign |-> <<>>, to_replace |-> <<>>]
    /\ plan = <<>>
    /\ stage = "init"
    /\ pc = 0
    /\ iter = 0
    /\ fs = [generated_entries |-> EmptyTree, esp |-> EmptyTree]
    /\ fs0 = fs
    /\ cmds = <<>>
    /\ probes = NoProbes
    /\ call \in {[fn |-> "inputs", timeout |-> t, idx |-> i, editor |-> e, console_mode |-> m] :
                   t \in {None} \cup {Some(n) : n \in 0..MaxTimeout},
                   i \in ConfIndices, e \in BOOLEAN, m \in ConsoleModes}

\* let contents = create_loader_conf(timeout, idx, editor, console_mode)?
CallCreateLoaderConf ==
    /\ call.fn = "inputs"
    /\ call' = [call EXCEPT !.fn = "create_loader_conf"]
    /\ cmds' = <<create_loader_conf(call.timeout, call.idx, call.editor, call.console_mode)>>
    /\ stage' = "done"
    /\ UNCHANGED <<args, gens, wanted, defgen, identified, plan, pc, iter, fs, fs0, probes>>

NextConf == CallCreateLoaderConf

SpecConf == InitConf /\ [][NextConf]_vars

----------------------------------------------------------------------------
(* File Identification on path strings.                                    *)

RECURSIVE str_replace(_, _)
\* str::replace(pat, ""): every match of pat, from the left, is taken out
str_replace(s, pat) ==
    IF Len(s) < Len(pat) THEN s
    ELSE IF SubSeq(s, 1, Len(pat)) = pat
         THEN str_replace(SubSeq(s, Len(pat) + 1, Len(s)), pat)
         ELSE <<s[1]>> \o str_replace(Tail(s), pat)

\* files.rs strip_unnecessary_prefix: the path without the text of both roots
strip_unnecessary_prefix(path, generated_entries, esp) ==
    str_replace(str_replace(path, generated_entries), esp)

\* Path::file_name: what follows the last "/"
file_name(path) ==
    LET slashes == {i \in 1..Len(path) : path[i] = "/"}
        last == IF slashes = {} THEN 0 ELSE CHOOSE i \in slashes : \A j \in slashes : j <= i
    IN  SubSeq(path, last + 1, Len(path))

\* files.rs IdentifiedFiles::new on the files the two globs yield, in their order
IdentifiedFiles_new_globbed(generated_files, esp_files, generated_entries, esp) ==
    LET strip(path) == strip_unnecessary_prefix(path, generated_entries, esp)
        Matches(e1) == {j \in 1..Len(esp_files) : strip(e1) = strip(esp_files[j])}
        NoMatch(e1) == Matches(e1) = {}
        HasMatch(e1) == Matches(e1) # {}
        to_add == SelectSeq(generated_files, NoMatch)
        found == SelectSeq(generated_files, HasMatch)
        to_replace == [i \in 1..Len(found) |->
                          [generated_loc |-> found[i],
                           esp_loc |-> esp_files[CHOOSE j \in Matches(found[i]) :
                                                    \A k \in Matches(found[i]) : j <= k]]]
        chained == to_add \o [i \in 1..Len(to_replace) |-> to_replace[i].generated_loc]
        is_efi(e) == Extension(file_name(e)) = Some(EFI)
    IN  [to_sign |-> SelectSeq(chained, is_efi),
         to_replace |-> to_replace]

\* the roots: a staging directory and two mount points of the ESP
STAGING_ROOT == <<"/", "g">>
EspRoots == {<<"/", "b">>, <<"/", "e", "f", "i">>}

\* paths below a root, in the order of a glob
RelPaths ==
    << <<"/", "e", "f", "i", "/", "n", "i", "x", "o", "s", "/", "i">>,
       <<"/", "e", "f", "i", "/", "n", "i", "x", "o", "s", "/", "k", ".", "e", "f", "i">>,
       <<"/", "l", "o", "a", "d", "e", "r", "/", "e", "n", "t", "r", "i", "e", "s", "/", "a", ".", "c", "o", "n", "f">>,
       <<"/", "n", "i", "x", "o", "s", "/", "k", ".", "e", "f", "i">> >>

\* glob("<root>/**/*"): the files of a tree whose relative paths are rels
Globbed(root, rels) ==
    LET In(r) == r \in rels
        sel == SelectSeq(RelPaths, In)
    IN  [i \in 1..Len(sel) |-> root \o sel[i]]

InitIdentify ==
    /\ args = Args(FALSE, None, None, StorePath(1))
    /\ gens = <<>>
    /\ wanted = <<>>
    /\ defgen = None
    /\ identified = [to_sign |-> <<>>, to_replace |-> <<>>]
    /\ plan = <<>>
    /\ stage = "start"
    /\ pc = 0
    /\ iter = 0
    /\ fs = [generated_entries |-> EmptyTree, esp |-> EmptyTree]
    /\ fs0 = fs
    /\ cmds = <<>>
    /\ probes = [installed |-> None, tool |-> None]
    /\ call \in {[fn |-> "globs", esp |-> e, staged |-> g, on_esp |-> o] :
                   e \in EspRoots,
                   g \in SUBSET {RelPaths[i] : i \in 1..Len(RelPaths)},
                   o \in SUBSET {RelPaths[i] : i \in 1..Len(RelPaths)}}

\* IdentifiedFiles::new(generated_entries, esp)
CallIdentifiedFilesNew ==
    /\ call.fn = "globs"
    /\ call' = [call EXCEPT !.fn = "IdentifiedFiles::new"]
    /\ identified' = IdentifiedFiles_new_globbed(Globbed(STAGING_ROOT, call.staged),
                                                 Globbed(call.esp, call.on_esp),
                                                 STAGING_ROOT, call.esp)
    /\ stage' = "done"
    /\ UNCHANGED <<args, gens, wanted, defgen, plan, pc, iter, fs, fs0, cmds, probes>>

NextIdentify == CallIdentifiedFilesNew

SpecIdentify == InitIdentify /\ [][NextIdentify]_vars

----------------------------------------------------------------------------
(* Version probes: from_output of the two versions.                        *)

\* the result of a fallible call
Ok(x) == [ok |-> TRUE, value |-> x]
Err(e) == [ok |-> FALSE, error |-> e]

\* the lower-case letter of an upper-case letter, any other character as it is
Lower(c) ==
    CASE c = "A" -> "a" []
      c = "B" -> "b" []
      c = "C" -> "c" []
      c = "D" -> "d" []
      c = "E" -> "e" []
      c = "F" -> "f" []
      c = "G" -> "g" []
      c = "H" -> "h" []
      c = "I" -> "i" []
      c = "J" -> "j" []
      c = "K" -> "k" []
      c = "L" -> "l" []
      c = "M" -> "m" []
      c = "N" -> "n" []
      c = "O" -> "o" []
      c = "P" -> "p" []
      c = "Q" -> "q" []
      c = "R" -> "r" []
      c = "S" -> "s" []
      c = "T" -> "t" []
      c = "U" -> "u" []
      c = "V" -> "v" []
      c = "W" -> "w" []
      c = "X" -> "x" []
      c = "Y" -> "y" []
      c = "Z" -> "z" []
      OTHER -> c

IsDigit(c) == c \in {"0", "1", "2", "3", "4", "5", "6", "7", "8", "9"}

\* \w of the regex crate, on the characters of the outputs
IsWord(c) ==
    \/ IsDigit(c)
    \/ c = "_"
    \/ Lower(c) \in {"a", "b", "c", "d", "e", "f", "g", "h", "i", "j", "k", "l", "m",
                     "n", "o", "p", "q", "r", "s", "t", "u", "v", "w", "x", "y", "z"}

\* the literal lit stands in s at position i; ci: whatever the case of s
LiteralAt(s, i, lit, ci) ==
    /\ i >= 1
    /\ i + Len(lit) - 1 <= Len(s)
    /\ \A k \in 1..Len(lit) :
          IF ci THEN Lower(s[i + k - 1]) = lit[k] ELSE s[i + k - 1] = lit[k]

\* \d+ at position i of s: the length of the run of digits that starts there
DigitRun(s, i) ==
    LET runs == {n \in 0..(Len(s) - i + 1) : \A k \in 0..(n - 1) : IsDigit(s[i + k])}
    IN  CHOOSE n \in runs : \A m \in runs : m <= n

RECURSIVE parse_usize(_)
\* str::parse::<usize> of a run of digits (the runs of the outputs fit a usize)
parse_usize(ds) ==
    IF ds = <<>> THEN 0
    ELSE 10 * parse_usize(SubSeq(ds, 1, Len(ds) - 1))
         + (CHOOSE d \in 0..9 : Digit(d) = ds[Len(ds)])

SYSTEMD_ == <<"s", "y", "s", "t", "e", "m", "d", " ">>
FILE_COLON == <<"f", "i", "l", "e", ":">>
EFI_BOOT_DIR == <<"/", "e", "f", "i", "/", "b", "o", "o", "t", "/">>
EFI_SYSTEMD_DIR == <<"/", "e", "f", "i", "/", "s", "y", "s", "t", "e", "m", "d", "/">>
EFI_SYSTEMD_BOOT_ == <<".", "e", "f", "i", " ", "(", "s", "y", "s", "t", "e", "m", "d", "-", "b", "o", "o", "t", " ">>

\* "systemd (?P<version>\\d+) \\(\\d+\\)" matches s from position i on
SystemdVersionMatch(s, i) ==
    /\ LiteralAt(s, i, SYSTEMD_, FALSE)
    /\ LET v == i + Len(SYSTEMD_)
           n == DigitRun(s, v)
           b == v + n + 2
           m == DigitRun(s, b)
       IN  /\ n >= 1
           /\ LiteralAt(s, v + n, <<" ", "(">>, FALSE)
           /\ m >= 1
           /\ LiteralAt(s, b + m, <<")">>, FALSE)

\* the mutant of SystemdVersion_from_output: no match is version 0, not an error
SystemdVersion_from_output_soft(output) ==
    LET found == {i \in 1..Len(output) : SystemdVersionMatch(output, i)}
    IN  IF found = {} THEN Ok(NewVersion(0))
        ELSE LET i == CHOOSE i \in found : \A j \in found : i <= j
                 v == i + Len(SYSTEMD_)
             IN  Ok(NewVersion(parse_usize(SubSeq(output, v, v + DigitRun(output, v) - 1))))

\* systemd.rs SystemdVersion::from_output: re.captures(output) is the leftmost
\* match; none is an error
SystemdVersion_from_output(output) ==
    LET found == {i \in 1..Len(output) : SystemdVersionMatch(output, i)}
    IN  IF found = {} THEN Err("failed to get capture groups")
        ELSE LET i == CHOOSE i \in found : \A j \in found : i <= j
                 v == i + Len(SYSTEMD_)
             IN  Ok(NewVersion(parse_usize(SubSeq(output, v, v + DigitRun(output, v) - 1))))

\* the position after the end of the line of position j
LineEnd(s, j) ==
    LET ends == {e \in j..(Len(s) + 1) : e = Len(s) + 1 \/ s[e] = "\n"}
    IN  CHOOSE e \in ends : \A d \in ends : e <= d

\* the start of the digits of a "(systemd-boot <digits>)" that ends the line of
\* position j; 0 when the line does not end so
VersionAt(s, j) ==
    LET e == LineEnd(s, j)
        starts == {v \in (j + 1)..(e - 2) :
                     /\ s[e - 1] = ")"
                     /\ v + DigitRun(s, v) = e - 1
                     /\ LiteralAt(s, v - Len(EFI_SYSTEMD_BOOT_), EFI_SYSTEMD_BOOT_, TRUE)}
    IN  IF starts = {} THEN 0 ELSE CHOOSE v \in starts : TRUE

\* "^\\W+File:.*/EFI/(BOOT|systemd)/.*\\.efi \\(systemd-boot (?P<version>\\d+)\\)$",
\* multi_line and case_insensitive, matches s with its "File:" at position j
SystemdBootVersionMatch(s, j) ==
    /\ LiteralAt(s, j, FILE_COLON, TRUE)
    /\ \E i \in 1..(j - 1) :
          /\ i = 1 \/ s[i - 1] = "\n"
          /\ \A k \in i..(j - 1) : ~IsWord(s[k])
    /\ LET v == VersionAt(s, j)
           p == v - Len(EFI_SYSTEMD_BOOT_)
       IN  /\ v # 0
           /\ \E k \in (j + Len(FILE_COLON))..p :
                 \/ LiteralAt(s, k, EFI_BOOT_DIR, TRUE) /\ k + Len(EFI_BOOT_DIR) <= p
                 \/ LiteralAt(s, k, EFI_SYSTEMD_DIR, TRUE) /\ k + Len(EFI_SYSTEMD_DIR) <= p

\* systemd_boot.rs SystemdBootVersion::from_output: re.captures(output) is the
\* leftmost match; none is Ok(None)
SystemdBootVersion_from_output(output) ==
    LET found == {j \in 1..Len(output) : SystemdBootVersionMatch(output, j)}
    IN  IF found = {} THEN Ok(None)
        ELSE LET j == CHOOSE j \in found : \A k \in found : j <= k
                 v == VersionAt(output, j)
             IN  Ok(Some(NewVersion(parse_usize(SubSeq(output, v, v + DigitRun(output, v) - 1)))))

\* lines of `bootctl status`, each with the version it reports, 0 for none
StatusLines ==
    << [text |-> <<" ", " ", " ", " ", " ", "F", "i", "l", "e", ":", " ", "/", "E", "F", "I", "/", "s", "y", "s", "t", "e", "m", "d", "/", "s", "y", "s", "t", "e", "m", "d", "-", "b", "o", "o", "t", "x", "6", "4", ".", "e", "f", "i", " ", "(", "s", "y", "s", "t", "e", "m", "d", "-", "b", "o", "o", "t", " ", "2", "4", "7", ")">>,
        version |-> 247],
       [text |-> <<" ", " ", " ", " ", " ", "F", "i", "l", "e", ":", " ", "/", "E", "F", "I", "/", "B", "O", "O", "T", "/", "B", "O", "O", "T", "X", "6", "4", ".", "E", "F", "I", " ", "(", "s", "y", "s", "t", "e", "m", "d", "-", "b", "o", "o", "t", " ", "1", "3", ")">>,
        version |-> 13],
       [text |-> <<" ", " ", " ", " ", " ", "F", "I", "L", "E", ":", " ", "/", "e", "f", "i", "/", "S", "y", "s", "t", "e", "m", "d", "/", "x", ".", "e", "f", "i", " ", "(", "S", "Y", "S", "T", "E", "M", "D", "-", "B", "O", "O", "T", " ", "4", ")">>,
        version |-> 4],
       [text |-> <<" ", " ", " ", " ", " ", " ", " ", " ", " ", "F", "i", "l", "e", ":", " ", "/", "E", "F", "I", "/", "S", "Y", "S", "T", "E", "M", "D", "/", "S", "Y", "S", "T", "E", "M", "D", "-", "B", "O", "O", "T", "X", "6", "4", ".", "E", "F", "I">>,
        version |-> 0],
       [text |-> <<" ", " ", " ", " ", " ", " ", "P", "r", "o", "d", "u", "c", "t", ":", " ", "s", "y", "s", "t", "e", "m", "d", "-", "b", "o", "o", "t", " ", "2", "4", "7">>,
        version |-> 0],
       [text |-> <<>>,
        version |-> 0],
       [text |-> <<" ", " ", " ", " ", " ", "F", "i", "l", "e", ":", " ", "/", "E", "F", "I", "/", "L", "i", "n", "u", "x", "/", "x", ".", "e", "f", "i", " ", "(", "s", "y", "s", "t", "e", "m", "d", "-", "b", "o", "o", "t", " ", "5", ")">>,
        version |-> 0],
       [text |-> <<" ", " ", " ", " ", " ", "F", "i", "l", "e", ":", " ", "/", "E", "F", "I", "/", "B", "O", "O", "T", "/", "B", "O", "O", "T", "X", "6", "4", ".", "E", "F", "I", " ", "(", "s", "y", "s", "t", "e", "m", "d", "-", "b", "o", "o", "t", " ", "1", "3", ")", " ", "x">>,
        version |-> 0],
       [text |-> <<"x", " ", " ", " ", " ", "F", "i", "l", "e", ":", " ", "/", "E", "F", "I", "/", "B", "O", "O", "T", "/", "B", "O", "O", "T", "X", "6", "4", ".", "E", "F", "I", " ", "(", "s", "y", "s", "t", "e", "m", "d", "-", "b", "o", "o", "t", " ", "7", ")">>,
        version |-> 0] >>

\* outputs of `bootctl --version`, each with the version it reports, 0 for none
VersionOutputs ==
    << [text |-> <<"s", "y", "s", "t", "e", "m", "d", " ", "2", "4", "7", " ", "(", "2", "4", "7", ")">>,
        version |-> 247],
       [text |-> <<"s", "y", "s", "t", "e", "m", "d", " ", "1", "3", " ", "(", "1", "3", ")", "\n", " ", "+", "P", "A", "M", " ", "+", "A", "U", "D", "I", "T", " ", "-", "S", "E", "L", "I", "N", "U", "X">>,
        version |-> 13],
       [text |-> <<"b", "o", "o", "t", "c", "t", "l", " ", "f", "r", "o", "m", " ", "s", "y", "s", "t", "e", "m", "d", " ", "4", " ", "(", "4", ")">>,
        version |-> 4],
       [text |-> <<"s", "y", "s", "t", "e", "m", "d", " ", "(", "2", "4", "7", ")">>,
        version |-> 0],
       [text |-> <<"s", "y", "s", "t", "e", "m", "c", " ", "2", "4", "7", " ", "(", "2", "4", "7", ")">>,
        version |-> 0],
       [text |-> <<>>,
        version |-> 0],
       [text |-> <<"S", "y", "s", "t", "e", "m", "d", " ", "2", "4", "7", " ", "(", "2", "4", "7", ")">>,
        version |-> 0],
       [text |-> <<"s", "y", "s", "t", "e", "m", "d", " ", "2", "5", "0", " ", "(", "2", "5", "0", ".", "4", ")">>,
        version |-> 0] >>

\* at most MaxStatusLines lines of a status output
MaxStatusLines == 2

RECURSIVE JoinLines(_)
\* the text of the lines ls of StatusLines, one after the other
JoinLines(ls) ==
    IF ls = <<>> THEN <<>>
    ELSE IF Len(ls) = 1 THEN StatusLines[ls[1]].text
    ELSE StatusLines[ls[1]].text \o NL \o JoinLines(Tail(ls))

InitProbe ==
    /\ args = Args(FALSE, None, None, StorePath(1))
    /\ gens = <<>>
    /\ wanted = <<>>
    /\ defgen = None
    /\ identified = [to_sign |-> <<>>, to_replace |-> <<>>]
    /\ plan = <<>>
    /\ stage = "start"
    /\ pc = 0
    /\ iter = 0
    /\ fs = [generated_entries |-> EmptyTree, esp |-> EmptyTree]
    /\ fs0 = fs
    /\ cmds = <<>>
    /\ probes = [installed |-> None, tool |-> None]
    /\ call \in {[fn |-> "output", status |-> ls, version |-> o] :
                   ls \in UNION {[1..n -> 1..Len(StatusLines)] : n \in 0..MaxStatusLines},
                   o \in 1..Len(VersionOutputs)}

\* SystemdBootVersion::from_output and SystemdVersion::from_output, on the
\* outputs of the two commands
CallFromOutput ==
    /\ call.fn = "output"
    /\ call' = [call EXCEPT !.fn = "from_output"]
    /\ probes' = [installed |-> SystemdBootVersion_from_output(JoinLines(call.status)),
                  tool |-> SystemdVersion_from_output(VersionOutputs[call.version].text)]
    /\ stage' = "done"
    /\ UNCHANGED <<args, gens, wanted, defgen, identified, plan, pc, iter, fs, fs0, cmds>>

NextProbe == CallFromOutput

SpecProbe == InitProbe /\ [][NextProbe]_vars

----------------------------------------------------------------------------
(* Artifact file names: the generator's and the installer's.               *)

STORE_PATH_PREFIX == <<"/", "n", "i", "x", "/", "s", "t", "o", "r", "e", "/">>
STORE_HASH_LEN == 32
EFI_NIXOS_ == <<"/", "e", "f", "i", "/", "n", "i", "x", "o", "s", "/">>
DOT_EFI == <<".", "e", "f", "i">>

RECURSIVE str_replace_with(_, _, _)
\* str::replace(pat, to): every match of pat, from the left, becomes to
str_replace_with(s, pat, to) ==
    IF Len(s) < Len(pat) THEN s
    ELSE IF SubSeq(s, 1, Len(pat)) = pat
         THEN to \o str_replace_with(SubSeq(s, Len(pat) + 1, Len(s)), pat, to)
         ELSE <<s[1]>> \o str_replace_with(Tail(s), pat, to)

\* util.rs store_path_to_efi_filename
store_path_to_efi_filename(path) ==
    IF ~(Len(path) >= Len(STORE_PATH_PREFIX)
         /\ SubSeq(path, 1, Len(STORE_PATH_PREFIX)) = STORE_PATH_PREFIX)
    THEN Err("provided path wasn't a Nix store path")
    ELSE Ok(str_replace_with(str_replace_with(path, STORE_PATH_PREFIX, <<>>), <<"/">>, <<"-">>)
            \o DOT_EFI)

\* util.rs all_generations, unified: the file name of the unified image of the
\* generation whose canonical path is path
unified_filename(path) ==
    SubSeq(str_replace_with(path, STORE_PATH_PREFIX, <<>>), 1, STORE_HASH_LEN) \o DOT_EFI

\* util.rs all_generations: required_filenames of a generation, without the
\* entry's name
required_filenames(unified, path, kernel_path, initrd_path) ==
    IF unified
    THEN <<unified_filename(path)>>
    ELSE <<store_path_to_efi_filename(kernel_path).value,
           store_path_to_efi_filename(initrd_path).value>>

\* the mutant of linux_entry_dest: the path is not flattened
linux_entry_dest_nested(store_path) ==
    EFI_NIXOS_ \o str_replace_with(store_path, STORE_PATH_PREFIX, <<>>) \o DOT_EFI

\* generator linux_entry_impl: `linux` and `initrd`, the destination of a
\* kernel or an initrd below the staging tree
linux_entry_dest(store_path) ==
    EFI_NIXOS_
    \o str_replace_with(str_replace_with(store_path, STORE_PATH_PREFIX, <<>>), <<"/">>, <<"-">>)
    \o DOT_EFI

\* generator efi_entry_impl: `unified`, the destination of the unified image
efi_entry_dest(toplevel) ==
    EFI_NIXOS_
    \o SubSeq(str_replace_with(toplevel, STORE_PATH_PREFIX, <<>>), 1, STORE_HASH_LEN)
    \o DOT_EFI

\* store paths of kernels and initrds
ArtifactPaths ==
    {<<"/", "n", "i", "x", "/", "s", "t", "o", "r", "e", "/", "a", "a", "a", "a", "a", "a", "a",
       "a", "a", "a", "a", "a", "a", "a", "a", "a", "a", "a", "a", "a", "a", "a", "a", "a", "a",
       "a", "a", "a", "a", "a", "a", "a", "-", "l", "i", "n", "u", "x", "-", "5", ".", "1", "2",
       "/", "b", "z", "I", "m", "a", "g", "e">>,
     <<"/", "n", "i", "x", "/", "s", "t", "o", "r", "e", "/", "b", "b", "b", "b", "b", "b", "b",
       "b", "b", "b", "b", "b", "b", "b", "b", "b", "b", "b", "b", "b", "b", "b", "b", "b", "b",
       "b", "b", "b", "b", "b", "b", "b", "-", "i", "n", "i", "t", "r", "d", "/", "i", "n", "i",
       "t", "r", "d">>,
     <<"/", "n", "i", "x", "/", "s", "t", "o", "r", "e", "/", "a", "a", "a", "a", "a", "a", "a",
       "a", "a", "a", "a", "a", "a", "a", "a", "a", "a", "a", "a", "a", "a", "a", "a", "a", "a",
       "a", "a", "a", "a", "a", "a", "a", "-", "e", "f", "i", "/", "s", "o", "m", "e", "/", "f",
       "i", "l", "e", "/", "h", "e", "r", "e">>,
     <<"/", "n", "i", "x", "/", "s", "t", "o", "r", "e", "/", "c", "c", "c", "c", "c", "c", "c",
       "c", "c", "c", "c", "c", "c", "c", "c", "c", "c", "c", "c", "c", "c", "c", "c", "c", "c",
       "c", "c", "c", "c", "c", "c", "c", "-", "k", "/", "n", "i", "x", "/", "s", "t", "o", "r",
       "e", "/", "x">>,
     <<"/", "n", "i", "x", "/", "s", "t", "o", "r", "e", "/", "d", "d", "d", "d", "d", "d", "d",
       "d", "d", "d", "d", "d", "d", "d", "d", "d", "d", "d", "d", "d", "d", "d", "d", "d", "d",
       "d", "d", "d", "d", "d", "d", "d", "-", "l", "i", "n", "u", "x">>}

\* store paths of the generations
ToplevelPaths ==
    {<<"/", "n", "i", "x", "/", "s", "t", "o", "r", "e", "/", "e", "e", "e", "e", "e", "e", "e",
       "e", "e", "e", "e", "e", "e", "e", "e", "e", "e", "e", "e", "e", "e", "e", "e", "e", "e",
       "e", "e", "e", "e", "e", "e", "e", "-", "n", "i", "x", "o", "s", "-", "s", "y", "s", "t",
       "e", "m", "-", "a", "-", "2", "1", ".", "1", "1", "-", "p", "r", "e">>,
     <<"/", "n", "i", "x", "/", "s", "t", "o", "r", "e", "/", "f", "f", "f", "f", "f", "f", "f",
       "f", "f", "f", "f", "f", "f", "f", "f", "f", "f", "f", "f", "f", "f", "f", "f", "f", "f",
       "f", "f", "f", "f", "f", "f", "f", "-", "n", "i", "x", "o", "s", "/", "n", "i", "x", "/",
       "s", "t", "o", "r", "e", "/", "x">>}

InitNames ==
    /\ args = Args(FALSE, None, None, StorePath(1))
    /\ gens = <<>>
    /\ wanted = <<>>
    /\ defgen = None
    /\ identified = [to_sign |-> <<>>, to_replace |-> <<>>]
    /\ plan = <<>>
    /\ stage = "start"
    /\ pc = 0
    /\ iter = 0
    /\ fs = [generated_entries |-> EmptyTree, esp |-> EmptyTree]
    /\ fs0 = fs
    /\ cmds = <<>>
    /\ probes = [installed |-> None, tool |-> None]
    /\ call \in {[fn |-> "generation", unified |-> u, toplevel |-> t, kernel |-> k, initrd |-> i] :
                   u \in BOOLEAN, t \in ToplevelPaths, k \in ArtifactPaths, i \in ArtifactPaths}

\* the generator stages the artifacts of the generation (generate) and the
\* installer lists the generation (all_generations)
GenerateAndList ==
    /\ call.fn = "generation"
    /\ call' = [call EXCEPT !.fn = "all_generations"]
    /\ LET dests == IF call.unified
                    THEN {efi_entry_dest(call.toplevel)}
                    ELSE {linux_entry_dest(call.kernel), linux_entry_dest(call.initrd)}
       IN  fs' = [fs EXCEPT ![GENERATED_ENTRIES].efi_nixos =
                     Dir({SubSeq(d, Len(EFI_NIXOS_) + 1, Len(d)) : d \in dests}, File(1, FALSE))]
    /\ cmds' = required_filenames(call.unified, call.toplevel, call.kernel, call.initrd)
    /\ stage' = "done"
    /\ UNCHANGED <<args, gens, wanted, defgen, identified, plan, pc, iter, fs0, probes>>

NextNames == GenerateAndList

SpecNames == InitNames /\ [][NextNames]_vars

----------------------------------------------------------------------------
(* The executor: the SignFiles, ReplaceFiles and WriteLoader arms.         *)

\* what the arms of consume_plan leave alone
ExecFrame == UNCHANGED <<args, gens, wanted, defgen, identified, plan, fs0, probes, call>>

\* a turn of a `for` loop of consume_plan over n elements is over: the next
\* turn, or the next step after the last one
LoopNext(n) ==
    IF iter + 1 >= n
    THEN StepDone
    ELSE /\ iter' = iter + 1
         /\ UNCHANGED <<pc, stage>>

\* SigningInfo::sign_file: sbsign --key .. --cert .. --output <file> <file>
SignCommand(signing_info, file) ==
    Command(signing_info.sbsign,
            <<"--key", signing_info.signing_key, "--cert", signing_info.signing_cert,
              "--output", file, file>>)

\* SigningInfo::verify_file: sbverify --cert .. <file>
VerifyCommand(signing_info, file) ==
    Command(signing_info.sbverify, <<"--cert", signing_info.signing_cert, file>>)

\* replace_file: sbattach --remove <file>
SBATTACH == "sbattach"
StripCommand(file) == Command(SBATTACH, <<"--remove", file>>)

\* warn!(..) and error!(..) lines, kept in the order of the commands
Logged(level, what, paths) == Command(level, <<what>> \o paths)

\* the file after sbsign has attached a signature
SignedFile(c) == [c EXCEPT !.sig = TRUE]

\* the file after sbattach --remove
StrippedFile(c) == [c EXCEPT !.sig = FALSE]

\* consume_plan, SignFiles arm, one turn of `for file in to_sign`:
\* signing_info.sign_file(&file)?
ExecSignFile ==
    /\ Running
    /\ pc \in 1..Len(plan)
    /\ plan[pc].kind = "SignFiles"
    /\ iter < Len(plan[pc].to_sign)
    /\ LET step == plan[pc]
           file == step.to_sign[iter + 1]
           c == ReadFile(fs, file)
       IN  /\ cmds' = Append(cmds, SignCommand(step.signing_info, file))
           /\ \/ \* sbsign cannot be run or exits with a failure
                 /\ StepFailed
                 /\ UNCHANGED fs
              \/ /\ IsSome(c)
                 /\ fs' = WriteFile(fs, file, SignedFile(Unwrap(c)))
                 /\ LoopNext(Len(step.to_sign))
    /\ ExecFrame

\* std::env::temp_dir() and the two copies replace_file makes in it
TMP_DIR == "tmp_dir"
GENERATED_TMP == <<TMP_DIR, "generated">>
ESP_TMP == <<TMP_DIR, "esp">>

\* the result of a call: whether it returned Ok, the file system it leaves and
\* the commands it ran
Result(ok, f, c) == [ok |-> ok, fs |-> f, cmds |-> c]

\* the mutant of SameChecksum: the checksums are never found equal
NeverSameChecksum(hash_a, hash_b) == FALSE

\* replace_file: hash_a == hash_b
SameChecksum(hash_a, hash_b) == hash_a = hash_b

\* the mutant of replace_file_decide: the staged file of a matching pair is
\* left where it is
replace_file_decide_keep(f, file, hash_a, hash_b, c) ==
    IF SameChecksum(hash_a, hash_b)
    THEN {Result(TRUE, f, c)}
    ELSE {Result(TRUE, f,
                 Append(c, Logged("warn!", "will be replaced",
                                  <<file.esp_loc, file.generated_loc>>)))}

\* replace_file, after the checksums: the staged file is removed when they are
\* equal, a warning is logged when they differ
replace_file_decide(f, file, hash_a, hash_b, c) ==
    IF SameChecksum(hash_a, hash_b)
    THEN {Result(TRUE, RemoveFile(f, file.generated_loc), c),
          Result(FALSE, f, c)}   \* fs::remove_file(&generated_loc)? fails
    ELSE {Result(TRUE, f,
                 Append(c, Logged("warn!", "will be replaced",
                                  <<file.esp_loc, file.generated_loc>>)))}

\* Err(format!("{} could not be verified", file.display())) of verify_file
NotVerified(level, file) == Logged(level, "could not be verified", <<file>>)

\* replace_file when signing is active and the staged file is an .efi image,
\* after the staged file is verified: the ESP file is verified (a failure is a
\* warning), both are copied to the temporary directory and stripped of their
\* signatures, and the checksums are those of the stripped copies
replace_file_verified(f, file, signing_info, c1) ==
    LET gl == file.generated_loc
        el == file.esp_loc
        g == ReadFile(f, gl)
        e == ReadFile(f, el)
        c2ok == Append(c1, VerifyCommand(signing_info, el))
        c2warn == Append(c2ok, NotVerified("warn!", el))
        c2s == IF IsSome(e) THEN {c2ok, c2warn} ELSE {c2warn}
        f1 == [f EXCEPT ![TMP_DIR].generated = g]
        f2 == [f1 EXCEPT ![TMP_DIR].esp = e]
        f3 == [f2 EXCEPT ![TMP_DIR].generated = Some(StrippedFile(Unwrap(g)))]
        f4 == [f3 EXCEPT ![TMP_DIR].esp = Some(StrippedFile(Unwrap(e)))]
        f5 == [f4 EXCEPT ![TMP_DIR].generated = None, ![TMP_DIR].esp = None]
    IN  UNION {
          {Result(FALSE, f, c2)}   \* fs::copy(&generated_loc, &generated_tmp)? fails
          \cup
          (IF IsSome(g)
           THEN {Result(FALSE, f1, c2)}   \* fs::copy(&esp_loc, &esp_tmp)? fails
           ELSE {})
          \cup
          (IF IsSome(g) /\ IsSome(e)
           THEN LET c3 == Append(c2, StripCommand(GENERATED_TMP))
                    c4 == Append(c3, StripCommand(ESP_TMP))
                IN  {Result(FALSE, f2, c3),   \* sbattach fails on the staged copy
                     Result(FALSE, f3, c4),   \* sbattach fails on the ESP copy
                     Result(FALSE, f4, c4)}   \* a temporary copy cannot be read or removed
                    \cup
                    replace_file_decide(f5, file,
                                        Checksum(Bytes(StrippedFile(Unwrap(g)))),
                                        Checksum(Bytes(StrippedFile(Unwrap(e)))),
                                        c4)
           ELSE {}) : c2 \in c2s}

\* the mutant of VerifyGeneratedFailed: the failure is a warning, as for the
\* ESP file
VerifyGeneratedWarned(f, file, signing_info, c1) ==
    replace_file_verified(f, file, signing_info,
                          Append(c1, NotVerified("warn!", file.generated_loc)))

\* replace_file: signing_info.verify_file(generated_loc)? returns the error
VerifyGeneratedFailed(f, file, signing_info, c1) ==
    {Result(FALSE, f, Append(c1, NotVerified("Err", file.generated_loc)))}

\* replace_file when signing is active and the staged file is an .efi image
replace_file_signed(f, file, signing_info) ==
    LET c1 == <<VerifyCommand(signing_info, file.generated_loc)>>
    IN  VerifyGeneratedFailed(f, file, signing_info, c1)
        \cup
        (IF IsSome(ReadFile(f, file.generated_loc))
         THEN replace_file_verified(f, file, signing_info, c1)
         ELSE {})

\* replace_file otherwise: the checksums are those of the files as they are
replace_file_raw(f, file) ==
    LET g == ReadFile(f, file.generated_loc)
        e == ReadFile(f, file.esp_loc)
    IN  {Result(FALSE, f, <<>>)}   \* fs::read(..)? fails
        \cup
        (IF IsSome(g) /\ IsSome(e)
         THEN replace_file_decide(f, file, Checksum(Bytes(Unwrap(g))),
                                  Checksum(Bytes(Unwrap(e))), <<>>)
         ELSE {})

\* replace_file takes the signed branch
VerifiesFiles(file, signing_info) == IsSome(signing_info) /\ IsEfi(file.generated_loc)

\* plan.rs replace_file(file, signing_info) on the file system f: the results
\* it can have
replace_file(f, file, signing_info) ==
    IF VerifiesFiles(file, signing_info)
    THEN replace_file_signed(f, file, Unwrap(signing_info))
    ELSE replace_file_raw(f, file)

\* consume_plan, ReplaceFiles arm, one turn of `for file in to_replace`:
\* self::replace_file(&file, signing_info)?; no turn when the list is empty
ExecReplaceFile ==
    /\ Running
    /\ pc \in 1..Len(plan)
    /\ plan[pc].kind = "ReplaceFiles"
    /\ LET step == plan[pc]
       IN  IF step.to_replace = <<>>
           THEN /\ StepDone
                /\ UNCHANGED <<fs, cmds>>
           ELSE /\ iter < Len(step.to_replace)
                /\ \E r \in replace_file(fs, step.to_replace[iter + 1], step.signing_info) :
                      /\ fs' = r.fs
                      /\ cmds' = cmds \o r.cmds
                      /\ IF r.ok THEN LoopNext(Len(step.to_replace)) ELSE StepFailed
    /\ ExecFrame

\* what File::create leaves before anything is written
EMPTY_FILE == <<>>

\* consume_plan, WriteLoader arm: File::create(&path)?, create_loader_conf(..)?,
\* f.write_all(contents.as_bytes())?
ExecWriteLoader ==
    /\ Running
    /\ pc \in 1..Len(plan)
    /\ plan[pc].kind = "WriteLoader"
    /\ LET step == plan[pc]
           t == fs[step.path[1]]
           contents == create_loader_conf(step.timeout, step.index, step.editor,
                                          step.console_mode)
       IN  \/ \* File::create fails
              /\ StepFailed
              /\ UNCHANGED fs
           \/ \* write_all fails
              /\ t.exists /\ t.has_loader_entries
              /\ fs' = WriteFile(fs, step.path, EMPTY_FILE)
              /\ StepFailed
           \/ /\ t.exists /\ t.has_loader_entries
              /\ fs' = WriteFile(fs, step.path, contents)
              /\ StepDone
    /\ UNCHANGED cmds
    /\ ExecFrame

----------------------------------------------------------------------------
(* The executor: the CopyToEsp, Syncfs and End arms.                       *)

\* the temporary directory of the bulk copy, next to its destination
COPY_TMP == "copy_tmp"

\* a tree that is not there
NoTree == Tree(FALSE, FALSE, FALSE, EmptyDir, EmptyDir, None)

\* a file the copy of which was cut short
PARTIAL == [data |-> 0, sig |-> FALSE]

\* the files the bulk copy walks: those of the source tree, in walk order
CopyFiles(f, source) == SetToSeq(TreeFiles(f[source]))

\* the mutant of CopyTarget: the first phase writes to the final paths
CopyTargetFinal(dest) == dest

\* the root the first phase of the bulk copy writes to: the temporary
\* directory, not the destination
CopyTarget(dest) == COPY_TMP

\* util::atomic_tmp_copy(generated_entries, esp), first phase, one file: the
\* file is copied below the temporary directory; the copy can fail, for lack
\* of space, and leave a part of the file
ExecCopyToTmp ==
    /\ Running
    /\ pc \in 1..Len(plan)
    /\ plan[pc].kind = "CopyToEsp"
    /\ LET step == plan[pc]
           files == CopyFiles(fs, step.generated_entries)
       IN  /\ iter < Len(files)
           /\ LET rel == files[iter + 1]
                  c == Unwrap(ReadFile(fs, Join(step.generated_entries, rel)))
                  to == Join(CopyTarget(step.esp), rel)
              IN  \/ /\ fs' = WriteFile(fs, to, c)
                     /\ iter' = iter + 1
                     /\ UNCHANGED <<pc, stage>>
                  \/ /\ fs' \in {fs, WriteFile(fs, to, PARTIAL)}
                     /\ StepFailed
    /\ UNCHANGED cmds
    /\ ExecFrame

\* util::atomic_tmp_copy, second phase, one file: the copy below the temporary
\* directory is renamed onto its final path
ExecRenameFromTmp ==
    /\ Running
    /\ pc \in 1..Len(plan)
    /\ plan[pc].kind = "CopyToEsp"
    /\ LET step == plan[pc]
           files == CopyFiles(fs, step.generated_entries)
           n == Len(files)
       IN  /\ n <= iter
           /\ iter < 2 * n
           /\ LET rel == files[iter - n + 1]
                  from == Join(COPY_TMP, rel)
                  c == ReadFile(fs, from)
              IN  \/ /\ IsSome(c)
                     /\ fs' = RemoveFile(WriteFile(fs, Join(step.esp, rel), Unwrap(c)), from)
                     /\ iter' = iter + 1
                     /\ UNCHANGED <<pc, stage>>
                  \/ /\ StepFailed
                     /\ UNCHANGED fs
    /\ UNCHANGED cmds
    /\ ExecFrame

\* util::atomic_tmp_copy, the end: the temporary tree is removed; then
\* consume_plan removes the staging tree: fs::remove_dir_all(&generated_entries)?
ExecCopyDone ==
    /\ Running
    /\ pc \in 1..Len(plan)
    /\ plan[pc].kind = "CopyToEsp"
    /\ LET step == plan[pc]
           cleaned == [fs EXCEPT ![COPY_TMP] = NoTree]
       IN  /\ iter = 2 * Len(CopyFiles(fs, step.generated_entries))
           /\ \/ /\ StepFailed
                 /\ UNCHANGED fs
              \/ /\ fs' = cleaned
                 /\ StepFailed
              \/ /\ fs' = [cleaned EXCEPT ![step.generated_entries] = NoTree]
                 /\ StepDone
    /\ UNCHANGED cmds
    /\ ExecFrame

\* consume_plan, Syncfs arm: self::syncfs(esp)?
ExecSyncfs ==
    /\ Running
    /\ pc \in 1..Len(plan)
    /\ plan[pc].kind = "Syncfs"
    /\ LET step == plan[pc]
       IN  \/ \* File::open(&esp)? fails
              /\ UNCHANGED cmds
              /\ StepFailed
           \/ \* libc::syncfs(fd) != 0: error!(..), then Ok(())
              /\ fs[step.esp].exists
              /\ cmds' = Append(cmds, Logged("error!", "could not sync", <<step.esp>>))
              /\ StepDone
           \/ /\ fs[step.esp].exists
              /\ UNCHANGED cmds
              /\ StepDone
    /\ UNCHANGED fs
    /\ ExecFrame

\* consume_plan, End arm: a trace line
ExecEnd ==
    /\ Running
    /\ pc \in 1..Len(plan)
    /\ plan[pc].kind = "End"
    /\ StepDone
    /\ UNCHANGED <<fs, cmds>>
    /\ ExecFrame

----------------------------------------------------------------------------
(* A whole run of the installer on one ESP, and a second run after it.     *)

OLD_LOADER == DEFAULT_ \o ConfFilename(1) \o NL

\* the staging tree the generator leaves for generations 1 (kernel a) and 2
\* (kernel b): their entries and kernel images, not signed (the initrds are
\* left out of the trees)
StagingTree ==
    Tree(TRUE, TRUE, TRUE,
         Dir({KernelFilename("a"), KernelFilename("b")}, File(1, FALSE)),
         Dir({ConfFilename(1), ConfFilename(2)}, File(1, FALSE)),
         None)

\* an ESP with the boot manager installed: the files of generation 1 (has1,
\* with data d) and of generation 2 (has2), signed or not, an entry of the
\* user, and the loader.conf l
EspTree(has1, has2, d, sig, l) ==
    Tree(TRUE, TRUE, TRUE,
         Dir(IF has1 THEN {KernelFilename("a")} ELSE {}, File(d, sig))
           @@ Dir(IF has2 THEN {KernelFilename("b")} ELSE {}, File(1, sig)),
         Dir(IF has1 THEN {ConfFilename(1)} ELSE {}, File(d, FALSE))
           @@ Dir(IF has2 THEN {ConfFilename(2)} ELSE {}, File(1, FALSE))
           @@ Dir({USER_ENTRY}, File(2, FALSE)),
         l)
    @@ BootBinaries(BOOT_IMAGE)

NoTmpFiles == [generated |-> None, esp |-> None]

\* the file system of a run: the two trees, the temporary directory of the bulk
\* copy and the system's temporary directory
FileSystem(staging, esp) ==
    [generated_entries |-> staging, esp |-> esp, copy_tmp |-> NoTree, tmp_dir |-> NoTmpFiles]

InitExec ==
    /\ args \in {Args(i, s, l, t) :
                   i \in BOOLEAN, s \in {None, Some(SIGNING_INFO)},
                   l \in {None, Some(1)}, t \in {StorePath(2), "toplevel"}}
    /\ gens = <<Generation(1, "a"), Generation(2, "b")>>
    /\ wanted = <<>>
    /\ defgen = None
    /\ identified = [to_sign |-> <<>>, to_replace |-> <<>>]
    /\ plan = <<>>
    /\ stage = "start"
    /\ pc = 0
    /\ iter = 0
    /\ fs \in {FileSystem(StagingTree, EspTree(h1, h2, d, sig, l)) :
                 h1 \in BOOLEAN, h2 \in BOOLEAN, d \in {1, 2}, sig \in BOOLEAN,
                 l \in {None, Some(OLD_LOADER)}}
    /\ fs0 = fs
    /\ cmds = <<>>
    /\ probes = [installed |-> Some(1), tool |-> Some(1)]
    /\ call = NoCall

\* IdentifiedFiles::new(&args.generated_entries, &esp), before the plan is made
Identify ==
    /\ stage = "start"
    /\ identified' = IdentifiedFiles_new(fs, GENERATED_ENTRIES, ESP)
    /\ stage' = "init"
    /\ UNCHANGED <<args, gens, wanted, defgen, plan, pc, iter, fs, fs0, cmds, probes, call>>

\* the process is killed between two steps of consume_plan
Kill ==
    /\ Running
    /\ iter = 0
    /\ call = NoCall
    /\ stage' = "killed"
    /\ UNCHANGED <<args, gens, wanted, defgen, identified, plan, pc, iter, fs, fs0, cmds, probes, call>>

\* the installer is run again, with the same generations and options and the
\* staging tree generated anew, on the ESP the first run left
Rerun ==
    /\ stage \in {"done", "killed"}
    /\ call = NoCall
    /\ call' = [fn |-> "rerun", first |-> stage, esp |-> fs[ESP], defgen |-> defgen]
    /\ fs' = [fs EXCEPT ![GENERATED_ENTRIES] = fs0[GENERATED_ENTRIES]]
    /\ stage' = "start"
    /\ plan' = <<>>
    /\ pc' = 0
    /\ iter' = 0
    /\ cmds' = <<>>
    /\ UNCHANGED <<args, gens, wanted, defgen, identified, fs0, probes>>

NextExec ==
    \/ Identify
    \/ WantedGenerations
    \/ CreatePlan
    \/ ExecStart
    \/ ExecInstall
    \/ ExecUpdate
    \/ ExecSignFile
    \/ PruneFilesPath
    \/ ExecReplaceFile
    \/ ExecWriteLoader
    \/ ExecCopyToTmp
    \/ ExecRenameFromTmp
    \/ ExecCopyDone
    \/ ExecSyncfs
    \/ ExecEnd
    \/ Kill
    \/ Rerun

SpecExec == InitExec /\ [][NextExec]_vars

----------------------------------------------------------------------------
(* The atomic copy of one file: util::atomic_tmp_copy_file.                *)

\* Path::with_extension(ext) on a file name: the extension is replaced, or
\* added when the name has none
WithExtension(name, ext) ==
    IF LastDot(name) <= 1
    THEN name \o <<".">> \o ext
    ELSE SubSeq(name, 1, LastDot(name)) \o ext

\* dest.with_extension("tmp")
tmp_dest(dest) == <<dest[1], Rel(dest[2][1], WithExtension(dest[2][2], TMP))>>

\* the file names of the copies: an entry, another entry, and the name the
\* first entry has with the extension "tmp"
CopyNames == {ConfFilename(1), ConfFilename(2), WithExtension(ConfFilename(1), TMP)}

\* the contents of the source file
SourceData == {1, 3}

\* what is in the ESP's entries before the copy
OLD_FILE == File(2, FALSE)

\* atomic_tmp_copy_file(source, dest) is called, for a file of the staging
\* tree and the path of the same name in the ESP; the ESP holds any of the
\* names, or lacks the directory
InitCopyFile ==
    /\ args = Args(FALSE, None, None, "toplevel")
    /\ gens = <<>>
    /\ wanted = <<>>
    /\ defgen = None
    /\ identified = [to_sign |-> <<>>, to_replace |-> <<>>]
    /\ plan = <<>>
    /\ stage = "running"
    /\ pc = 0
    /\ iter = 0
    /\ \E n \in CopyNames, d \in SourceData, S \in SUBSET CopyNames, has \in BOOLEAN :
          /\ has \/ S = {}
          /\ fs = FileSystem(Tree(TRUE, FALSE, TRUE, EmptyDir, Dir({n}, File(d, FALSE)), None),
                             Tree(has, FALSE, has, EmptyDir, Dir(S, OLD_FILE), None))
          /\ call = [fn |-> "atomic_tmp_copy_file",
                     source |-> Join(GENERATED_ENTRIES, Rel(LOADER_ENTRIES, n)),
                     dest |-> Join(ESP, Rel(LOADER_ENTRIES, n))]
    /\ fs0 = fs
    /\ cmds = <<>>
    /\ probes = NoProbes

\* what the steps of atomic_tmp_copy_file leave alone
CopyFileFrame == UNCHANGED <<args, gens, wanted, defgen, identified, plan, fs0, cmds, probes, call>>

\* a step of atomic_tmp_copy_file returns its error
CopyFileFailed == stage' = "failed" /\ UNCHANGED <<pc, iter>>

\* if tmp_dest.exists() { fs::remove_file(&tmp_dest)?; }
AtomicRemoveTmp ==
    /\ stage = "running"
    /\ call.fn = "atomic_tmp_copy_file"
    /\ pc = 0
    /\ IF IsSome(ReadFile(fs, tmp_dest(call.dest)))
       THEN \/ /\ fs' = RemoveFile(fs, tmp_dest(call.dest))
               /\ pc' = 1
               /\ UNCHANGED <<stage, iter>>
            \/ /\ CopyFileFailed
               /\ UNCHANGED fs
       ELSE /\ pc' = 1
            /\ UNCHANGED <<fs, stage, iter>>
    /\ CopyFileFrame

\* self::create_dirs_to_file(dest)?
AtomicCreateDirs ==
    /\ stage = "running"
    /\ call.fn = "atomic_tmp_copy_file"
    /\ pc = 1
    /\ IF IsSome(ReadFile(fs, call.dest))
       THEN /\ pc' = 2
            /\ UNCHANGED <<fs, stage, iter>>
       ELSE \/ /\ fs' = [fs EXCEPT ![call.dest[1]].exists = TRUE,
                                   ![call.dest[1]].has_loader_entries = TRUE]
               /\ pc' = 2
               /\ UNCHANGED <<stage, iter>>
            \/ /\ CopyFileFailed
               /\ UNCHANGED fs
    /\ CopyFileFrame

\* fs::copy(source, &tmp_dest)?, its beginning: the file is created and a part
\* of the content is written
AtomicCopyBegin ==
    /\ stage = "running"
    /\ call.fn = "atomic_tmp_copy_file"
    /\ pc = 2
    /\ iter = 0
    /\ \/ /\ fs' = WriteFile(fs, tmp_dest(call.dest), PARTIAL)
          /\ iter' = 1
          /\ UNCHANGED <<pc, stage>>
       \/ /\ CopyFileFailed
          /\ UNCHANGED fs
    /\ CopyFileFrame

\* fs::copy(source, &tmp_dest)?, its end: the rest is written, or the copy
\* fails and leaves the part
AtomicCopyEnd ==
    /\ stage = "running"
    /\ call.fn = "atomic_tmp_copy_file"
    /\ pc = 2
    /\ iter = 1
    /\ \/ /\ fs' = WriteFile(fs, tmp_dest(call.dest), Unwrap(ReadFile(fs, call.source)))
          /\ pc' = 3
          /\ iter' = 0
          /\ UNCHANGED stage
       \/ /\ CopyFileFailed
          /\ UNCHANGED fs
    /\ CopyFileFrame

\* fs::rename(tmp_dest, dest)?; Ok(())
AtomicRename ==
    /\ stage = "running"
    /\ call.fn = "atomic_tmp_copy_file"
    /\ pc = 3
    /\ \/ /\ fs' = IF tmp_dest(call.dest) = call.dest THEN fs
                   ELSE RemoveFile(WriteFile(fs, call.dest,
                                             Unwrap(ReadFile(fs, tmp_dest(call.dest)))),
                                   tmp_dest(call.dest))
          /\ stage' = "done"
          /\ UNCHANGED <<pc, iter>>
       \/ /\ CopyFileFailed
          /\ UNCHANGED fs
    /\ CopyFileFrame

NextCopyFile ==
    \/ AtomicRemoveTmp
    \/ AtomicCreateDirs
    \/ AtomicCopyBegin
    \/ AtomicCopyEnd
    \/ AtomicRename

SpecCopyFile == InitCopyFile /\ [][NextCopyFile]_vars

----------------------------------------------------------------------------
(* Update runs on ESPs whose files differ from the staged ones in content. *)

\* the contents the ESP's files of generation 1 can have: that of the staged
\* file, another one, and another one with the same checksum
EspData == {1, 2, 3}

InitReplace ==
    /\ args \in {Args(FALSE, s, None, StorePath(2)) : s \in {None, Some(SIGNING_INFO)}}
    /\ gens = <<Generation(1, "a"), Generation(2, "b")>>
    /\ wanted = <<>>
    /\ defgen = None
    /\ identified = [to_sign |-> <<>>, to_replace |-> <<>>]
    /\ plan = <<>>
    /\ stage = "start"
    /\ pc = 0
    /\ iter = 0
    /\ fs \in {FileSystem(StagingTree, EspTree(h1, h2, d, sig, Some(OLD_LOADER))) :
                 h1 \in BOOLEAN, h2 \in BOOLEAN, d \in EspData, sig \in BOOLEAN}
    /\ fs0 = fs
    /\ cmds = <<>>
    /\ probes = [installed |-> Some(1), tool |-> Some(1)]
    /\ call = NoCall

NextReplace ==
    \/ Identify
    \/ WantedGenerations
    \/ CreatePlan
    \/ ExecStart
    \/ ExecUpdate
    \/ ExecSignFile
    \/ PruneFilesPath
    \/ ExecReplaceFile
    \/ ExecWriteLoader
    \/ ExecCopyToTmp
    \/ ExecRenameFromTmp
    \/ ExecCopyDone
    \/ ExecSyncfs
    \/ ExecEnd

SpecReplace == InitReplace /\ [][NextReplace]_vars

----------------------------------------------------------------------------
(* The command line: the four Secure Boot credentials.                     *)

\* the error of a partial set of credentials
ALL_REQUIRED == "--signing-key, --signing-cert, --sbsign, and --sbverify are all required when signing for SecureBoot"

\* the mutant of from_arg_matches: a partial set of credentials is taken as none
from_arg_matches_lax(signing_key, signing_cert, sbsign, sbverify) ==
    IF IsSome(signing_key) /\ IsSome(signing_cert) /\ IsSome(sbsign) /\ IsSome(sbverify)
    THEN Ok(Some([signing_key |-> Unwrap(signing_key), signing_cert |-> Unwrap(signing_cert),
                  sbsign |-> Unwrap(sbsign), sbverify |-> Unwrap(sbverify)]))
    ELSE Ok(None)

\* options.rs OptionalSigningInfo::from_arg_matches, on the values of the four
\* flags (None for a flag that is not given: matches.value_of_t returns Err)
from_arg_matches(signing_key, signing_cert, sbsign, sbverify) ==
    IF ~IsSome(signing_key) /\ ~IsSome(signing_cert) /\ ~IsSome(sbsign) /\ ~IsSome(sbverify)
    THEN Ok(None)
    ELSE IF IsSome(signing_key) /\ IsSome(signing_cert) /\ IsSome(sbsign) /\ IsSome(sbverify)
    THEN Ok(Some([signing_key |-> Unwrap(signing_key), signing_cert |-> Unwrap(signing_cert),
                  sbsign |-> Unwrap(sbsign), sbverify |-> Unwrap(sbverify)]))
    ELSE Err(ALL_REQUIRED)

\* the installer is started with any of the four flags, on an ESP that holds
\* the files of both generations
InitArgs ==
    /\ args = Args(FALSE, None, None, StorePath(2))
    /\ gens = <<Generation(1, "a"), Generation(2, "b")>>
    /\ wanted = <<>>
    /\ defgen = None
    /\ identified = [to_sign |-> <<>>, to_replace |-> <<>>]
    /\ plan = <<>>
    /\ stage = "argv"
    /\ pc = 0
    /\ iter = 0
    /\ fs = FileSystem(StagingTree, EspTree(TRUE, TRUE, 2, FALSE, Some(OLD_LOADER)))
    /\ fs0 = fs
    /\ cmds = <<>>
    /\ probes = [installed |-> Some(1), tool |-> Some(1)]
    /\ call \in {[fn |-> "argv", signing_key |-> k, signing_cert |-> c, sbsign |-> s, sbverify |-> v] :
                   k \in {None, Some(SIGNING_INFO.signing_key)},
                   c \in {None, Some(SIGNING_INFO.signing_cert)},
                   s \in {None, Some(SIGNING_INFO.sbsign)},
                   v \in {None, Some(SIGNING_INFO.sbverify)}}

\* main: let args: Args = clap::Parser::parse(); an error of from_arg_matches
\* ends the process
ParseArgs ==
    /\ stage = "argv"
    /\ LET r == from_arg_matches(call.signing_key, call.signing_cert, call.sbsign, call.sbverify)
       IN  IF r.ok
           THEN /\ args' = [args EXCEPT !.signing_info = r.value]
                /\ stage' = "start"
           ELSE /\ stage' = "rejected"
                /\ UNCHANGED args
    /\ UNCHANGED <<gens, wanted, defgen, identified, plan, pc, iter, fs, fs0, cmds, probes, call>>

NextArgs == ParseArgs \/ NextReplace

SpecArgs == InitArgs /\ [][NextArgs]_vars

----------------------------------------------------------------------------
(* One invocation with several ESPs.                                       *)

ESP2 == "esp2"

\* the installer is started for two ESPs, each with the files of generation 1
\* or 2 or both; the generations are read
InitEsps ==
    /\ args \in {Args(FALSE, None, l, StorePath(2)) : l \in {None, Some(1)}}
    /\ gens = <<Generation(1, "a"), Generation(2, "b")>>
    /\ wanted = <<>>
    /\ defgen = None
    /\ identified = [to_sign |-> <<>>, to_replace |-> <<>>]
    /\ plan = <<>>
    /\ stage = "init"
    /\ pc = 0
    /\ iter = 0
    /\ fs \in {FileSystem(StagingTree, EspTree(h[1], h[2], d[1], FALSE, Some(OLD_LOADER)))
                 @@ [esp2 |-> EspTree(h[3], h[4], d[2], FALSE, Some(OLD_LOADER))] :
                 h \in [1..4 -> BOOLEAN], d \in [1..2 -> {1, 2}]}
    /\ fs0 = fs
    /\ cmds = <<>>
    /\ probes = [installed |-> Some(1), tool |-> Some(1)]
    /\ call = [fn |-> "install", esp |-> <<ESP, ESP2>>, planned |-> 0]

\* one turn of the loop over args.esp, up to consume_plan: the files are
\* identified and the plan is made for the next ESP, after the plan of the ESP
\* before it was consumed without an error; the default generation is the
\* newest wanted generation
PlanNextEsp ==
    /\ call.fn = "install"
    /\ call.planned < Len(call.esp)
    /\ stage = (IF call.planned = 0 THEN "limited" ELSE "done")
    /\ wanted # <<>>
    /\ LET esp == call.esp[call.planned + 1]
           files == IdentifiedFiles_new(fs, GENERATED_ENTRIES, esp)
           dg == wanted[Len(wanted)]
       IN  /\ identified' = files
           /\ defgen' = Some(dg)
           /\ plan' = create_plan([args |-> args,
                                   bootctl |-> args.bootctl,
                                   esp |-> esp,
                                   wanted_generations |-> wanted,
                                   default_generation |-> dg,
                                   identified_files |-> files])
    /\ call' = [call EXCEPT !.planned = @ + 1]
    /\ stage' = "planned"
    /\ pc' = 1
    /\ iter' = 0
    /\ UNCHANGED <<args, gens, wanted, fs, fs0, cmds, probes>>

NextEsps ==
    \/ WantedGenerations
    \/ PlanNextEsp
    \/ ExecStart
    \/ ExecUpdate
    \/ PruneFilesPath
    \/ ExecReplaceFile
    \/ ExecWriteLoader
    \/ ExecCopyToTmp
    \/ ExecRenameFromTmp
    \/ ExecCopyDone
    \/ ExecSyncfs
    \/ ExecEnd

SpecEsps == InitEsps /\ [][NextEsps]_vars

----------------------------------------------------------------------------
(* Claims about the plan.                                                  *)

\* the positions of the steps of kind k in plan p
Indices(p, k) == {i \in 1..Len(p) : p[i].kind = k}

\* the kinds of the steps of p, in order
Kinds(p) == [i \in 1..Len(p) |-> p[i].kind]

NotSignFiles(step) == step.kind # "SignFiles"

Planned == stage = "planned"

\* C1: in every plan create_plan produces, PruneFiles comes before CopyToEsp,
\* WriteLoader (when present) comes before CopyToEsp, Start is the first step,
\* End the last one and Syncfs the step right before End.
C1_StepOrder ==
    Planned =>
        /\ Cardinality(Indices(plan, "PruneFiles")) = 1
        /\ Cardinality(Indices(plan, "CopyToEsp")) = 1
        /\ \A i \in Indices(plan, "PruneFiles"), j \in Indices(plan, "CopyToEsp") : i < j
        /\ \A i \in Indices(plan, "WriteLoader"), j \in Indices(plan, "CopyToEsp") : i < j
        /\ plan[1].kind = "Start"
        /\ plan[Len(plan)].kind = "End"
        /\ plan[Len(plan) - 1].kind = "Syncfs"

\* a plan of an install run with signing configured and a file to replace
C1_Witness ==
    /\ Planned
    /\ args.install
    /\ IsSome(args.signing_info)
    /\ identified.to_replace # <<>>
    /\ Len(plan) = 9

\* C2: every plan holds exactly one step that is Install or Update; it is Install
\* exactly when args.install is set, and it is the second step, right after Start.
C2_InstallXorUpdate ==
    Planned =>
        /\ Cardinality(Indices(plan, "Install") \cup Indices(plan, "Update")) = 1
        /\ plan[1].kind = "Start"
        /\ plan[2].kind = (IF args.install THEN "Install" ELSE "Update")

\* a plan of an install run and its Install step
C2_Witness ==
    /\ Planned
    /\ args.install
    /\ Indices(plan, "Install") = {2}
    /\ Indices(plan, "Update") = {}

\* C3: the plan holds a SignFiles step iff signing info is configured; the step
\* then is the third one, right after Install/Update and right before PruneFiles,
\* and lists the ESP's two boot manager binaries followed by the identified
\* to_sign files in their order; without the SignFiles step the plan is the same
\* sequence of steps whatever the signing setting.
C3_SignFiles ==
    Planned =>
        /\ (Indices(plan, "SignFiles") # {}) <=> IsSome(args.signing_info)
        /\ IsSome(args.signing_info) =>
              /\ Indices(plan, "SignFiles") = {3}
              /\ plan[2].kind \in {"Install", "Update"}
              /\ plan[4].kind = "PruneFiles"
              /\ plan[3].to_sign =
                    <<<<"esp", <<"EFI/systemd",
                                 <<"s", "y", "s", "t", "e", "m", "d", "-", "b", "o", "o", "t",
                                   "x", "6", "4", ".", "e", "f", "i">>>>>>,
                      <<"esp", <<"EFI/BOOT",
                                 <<"B", "O", "O", "T", "X", "6", "4", ".", "E", "F", "I">>>>>>>> \o identified.to_sign
        /\ Kinds(SelectSeq(plan, NotSignFiles)) =
              <<"Start", IF args.install THEN "Install" ELSE "Update", "PruneFiles",
                "ReplaceFiles", "WriteLoader", "CopyToEsp", "Syncfs", "End">>

\* a plan with a SignFiles step that lists two identified files after the binaries
C3_Witness ==
    /\ Planned
    /\ IsSome(args.signing_info)
    /\ Len(identified.to_sign) = 2
    /\ identified.to_sign[1] # identified.to_sign[2]
    /\ Len(plan[3].to_sign) = 4

\* the last n elements of s in their order (all of s when it has fewer than n)
LastN(s, n) ==
    LET k == Min(n, Len(s))
    IN  [i \in 1..k |-> s[Len(s) - k + i]]

\* C4: wanted_generations(gens, Some(n)) is the last n generations of gens in
\* their order (all of them when gens has no more than n), and
\* wanted_generations(gens, None) is gens.
C4_WantedGenerations ==
    stage # "init" =>
        wanted = (IF IsSome(args.configuration_limit)
                  THEN LastN(gens, Unwrap(args.configuration_limit))
                  ELSE gens)

\* a limit of 1 applied to three generations keeps the newest one
C4_Witness ==
    /\ stage = "limited"
    /\ args.configuration_limit = Some(1)
    /\ Len(gens) = 3
    /\ wanted = <<gens[3]>>

\* the positions of the wanted generations whose path is the toplevel
Matching == {i \in 1..Len(wanted) : wanted[i].path = args.toplevel}

----------------------------------------------------------------------------
(* Claims about pruning.                                                   *)

PrunedPaths == {GENERATED_ENTRIES, ESP}

\* the file names the generations of the list gs require
RequiredUnion(gs) ==
    UNION {{g.conf_filename, g.kernel_filename, g.initrd_filename} : g \in Range(gs)}

\* file name of directory d0 is still in directory d, with the same content
Kept(d0, d, name) == name \in DOMAIN d /\ d[name] = d0[name]

\* remove_old_files has returned Ok for the tree at path p
PrunedOk(p) ==
    \/ stage = "done"
    \/ p = GENERATED_ENTRIES /\ iter >= 1

\* C5 as claimed: a loader/entries file whose name is not of the form
\* nixos-[<profile>-]generation-<N>.conf is still there, unchanged, whatever
\* PruneFiles has done so far.
C5_UnmanagedEntriesKept ==
    \A p \in PrunedPaths :
       \A name \in DOMAIN fs0[p].loader_entries :
          ~ManagedEntryName(name) => Kept(fs0[p].loader_entries, fs[p].loader_entries, name)

\* C6: a file of loader/entries or efi/nixos that a wanted generation requires
\* is still there, unchanged, whatever PruneFiles has done so far.
C6_RequiredFilesKept ==
    \A p \in PrunedPaths :
       \A name \in RequiredUnion(wanted) :
          /\ name \in DOMAIN fs0[p].loader_entries =>
                Kept(fs0[p].loader_entries, fs[p].loader_entries, name)
          /\ name \in DOMAIN fs0[p].efi_nixos =>
                Kept(fs0[p].efi_nixos, fs[p].efi_nixos, name)

\* generation 1 is no longer wanted and shares its kernel with generation 2: the
\* ESP's entry of generation 1 is gone, the kernel is still there
C6_Witness ==
    /\ stage = "done"
    /\ Len(gens) = 2
    /\ gens[1].kernel_filename = gens[2].kernel_filename
    /\ wanted = <<gens[2]>>
    /\ gens[1].conf_filename \in DOMAIN fs0[ESP].loader_entries
    /\ gens[1].conf_filename \notin DOMAIN fs[ESP].loader_entries
    /\ gens[1].kernel_filename \in DOMAIN fs0[ESP].efi_nixos
    /\ gens[1].kernel_filename \in DOMAIN fs[ESP].efi_nixos

\* C7: the PruneFiles step carries the limited generations and both trees; once
\* a tree with both directories is pruned, loader/entries holds no entry of the
\* managed name pattern that no wanted generation requires, and efi/nixos holds
\* no file at all that no wanted generation requires.
C7_OldFilesGone ==
    /\ \A i \in Indices(plan, "PruneFiles") :
          /\ plan[i].wanted_generations =
                (IF IsSome(args.configuration_limit)
                 THEN LastN(gens, Unwrap(args.configuration_limit))
                 ELSE gens)
          /\ plan[i].paths = <<"generated_entries", "esp">>
    /\ \A p \in PrunedPaths :
          (PrunedOk(p) /\ ~NothingToPrune(fs0[p])) =>
             /\ \A name \in DOMAIN fs[p].loader_entries :
                   ManagedEntryName(name) => name \in RequiredUnion(wanted)
             /\ \A name \in DOMAIN fs[p].efi_nixos : name \in RequiredUnion(wanted)

\* generations 1 and 2 with different kernels, limit 1: the entry of generation
\* 1 is gone from both trees and its kernel from the ESP
C7_Witness ==
    /\ stage = "done"
    /\ Len(gens) = 2
    /\ gens[1].kernel_filename # gens[2].kernel_filename
    /\ args.configuration_limit = Some(1)
    /\ \A p \in PrunedPaths :
          /\ gens[1].conf_filename \in DOMAIN fs0[p].loader_entries
          /\ gens[1].conf_filename \notin DOMAIN fs[p].loader_entries
    /\ gens[1].kernel_filename \in DOMAIN fs0[ESP].efi_nixos
    /\ gens[1].kernel_filename \notin DOMAIN fs[ESP].efi_nixos

----------------------------------------------------------------------------
(* Claims about the update of the boot manager and the version comparison. *)

\* the update command is among the commands run so far
UpdateInvoked == \E i \in 1..Len(cmds) : cmds[i].args[1] = "update"

\* `bootctl status` shows an installed version that is older than the tool's
InstalledIsOld ==
    /\ IsSome(probes.installed)
    /\ IsSome(probes.tool)
    /\ Unwrap(probes.installed) < Unwrap(probes.tool)

\* consume_plan has handled (or failed in) the Update step at position 2
UpdateHandled ==
    /\ Len(plan) >= 2
    /\ plan[2].kind = "Update"
    /\ pc > 2 \/ (pc = 2 /\ stage = "failed")

\* C9 as claimed: once the executor has run the Update step, the update command
\* has been invoked iff an installed version was found and is strictly older than
\* the tool version; otherwise the run goes on with the next step without it.
C9_UpdateIffOld ==
    UpdateHandled =>
        /\ UpdateInvoked <=> InstalledIsOld
        /\ (~InstalledIsOld /\ IsSome(probes.tool)) => (pc = 3 /\ stage = "running")

\* C10: bootloader_is_old(b, s) is true exactly when b is a version and b < s
\* (never for equal versions, never for an absent one); SystemdBootVersion(b) <
\* SystemdVersion(s) iff b < s, SystemdVersion(s) < SystemdBootVersion(b) iff
\* s < b, and the two kinds are equal iff their numbers are.
C10_VersionComparison ==
    LET s == Unwrap(probes.tool)
        b == Unwrap(probes.installed)
    IN  /\ call.fn = "bootloader_is_old" =>
              (call.ret <=> (IsSome(probes.installed) /\ b < s))
        /\ call.fn = "SystemdBootVersion < SystemdVersion" => (call.ret <=> b < s)
        /\ call.fn = "SystemdVersion < SystemdBootVersion" => (call.ret <=> s < b)
        /\ call.fn = "SystemdBootVersion == SystemdVersion" => (call.ret <=> b = s)
        /\ call.fn = "SystemdVersion == SystemdBootVersion" => (call.ret <=> s = b)

\* bootloader_is_old called with equal versions says: not old
C10_Witness ==
    /\ call.fn = "bootloader_is_old"
    /\ IsSome(probes.installed)
    /\ Unwrap(probes.installed) = Unwrap(probes.tool)
    /\ call.ret = FALSE

----------------------------------------------------------------------------
(* Claims about the executor.                                              *)

\* the position of the step of kind k in the plan
StepIndex(k) == CHOOSE i \in Indices(plan, k) : TRUE

\* consume_plan is at (or has failed in) a step of kind k
AtStep(k) == pc \in 1..Len(plan) /\ plan[pc].kind = k

\* the step a logged command or line belongs to
StepOfCommand(c) ==
    CASE c.prog = "bootctl" -> 2
      [] c.prog = "sbsign" -> StepIndex("SignFiles")
      [] c.prog = "error!" -> StepIndex("Syncfs")
      [] OTHER -> StepIndex("ReplaceFiles")

\* the elements of the loop of the current step that have been handled: iter
\* of them, and the failing one when the step has failed
Handled == iter + (IF stage = "failed" THEN 1 ELSE 0)

\* the files the sbsign commands run so far were given, in order
SignedSoFar ==
    LET IsSign(c) == c.prog = "sbsign"
        signs == SelectSeq(cmds, IsSign)
    IN  [i \in 1..Len(signs) |-> signs[i].args[6]]

\* the files the commands and lines of replace_file so far are about
ReplacedSoFar ==
    {cmds[i].args[Len(cmds[i].args)] :
        i \in {j \in 1..Len(cmds) :
                 cmds[j].prog \in {"sbverify", "warn!", "Err"}}}

\* no managed entry and no artifact of tree t is left that the wanted
\* generations do not require
Pruned(t) ==
    /\ \A name \in DOMAIN t.loader_entries :
          ManagedEntryName(name) => name \in RequiredUnion(wanted)
    /\ \A name \in DOMAIN t.efi_nixos : name \in RequiredUnion(wanted)

\* the steps are taken in plan order, and what comes after a failure is left
\* undone, in the state reached
C11_InOrder ==
    (plan # <<>> /\ pc >= 1) =>
       /\ \A i \in 1..Len(cmds) :
             /\ StepOfCommand(cmds[i]) <= pc
             /\ \A j \in i..Len(cmds) : StepOfCommand(cmds[i]) <= StepOfCommand(cmds[j])
       /\ AtStep("SignFiles") =>
             SignedSoFar = SubSeq(plan[pc].to_sign, 1, Handled)
       /\ (AtStep("PruneFiles") /\ call = NoCall /\ stage = "failed" /\ iter = 0) =>
             /\ fs[ESP].loader_entries = fs0[ESP].loader_entries
             /\ fs[ESP].efi_nixos = fs0[ESP].efi_nixos
       /\ AtStep("ReplaceFiles") =>
             \A j \in 1..Len(plan[pc].to_replace) :
                j > Handled =>
                   /\ plan[pc].to_replace[j].generated_loc \notin ReplacedSoFar
                   /\ plan[pc].to_replace[j].esp_loc \notin ReplacedSoFar
       /\ (stage = "failed" /\ pc > StepIndex("PruneFiles")) =>
             /\ Pruned(fs[ESP])
             /\ fs[GENERATED_ENTRIES].exists => Pruned(fs[GENERATED_ENTRIES])

\* C11: the executor takes the steps in plan order and stops at the first hard
\* error: once a step has failed nothing changes any more (no later step, file
\* or tree is handled), and what the steps before it did is still done.
C11_FailFast ==
    /\ []C11_InOrder
    /\ [][stage = "failed" => UNCHANGED vars]_vars

\* signing fails on the third file, after the ESP was changed by `bootctl
\* install`: the first two files are signed and stay signed
C11_Witness ==
    /\ stage = "failed"
    /\ AtStep("SignFiles")
    /\ iter = 2
    /\ Len(plan[pc].to_sign) > 3
    /\ \A i \in 1..2 : Unwrap(ReadFile(fs, plan[pc].to_sign[i])).sig
    /\ ~Unwrap(ReadFile(fs, plan[pc].to_sign[3])).sig
    /\ fs[ESP].loader_conf # fs0[ESP].loader_conf

\* C12 as claimed: the Syncfs step never ends the run with an error.
C12_SyncfsNeverAborts == ~(stage = "failed" /\ AtStep("Syncfs"))

\* the text WriteLoader writes in this run
Rendered ==
    LET step == plan[StepIndex("WriteLoader")]
    IN  create_loader_conf(step.timeout, step.index, step.editor, step.console_mode)

\* the bulk copy of the CopyToEsp step has begun to rename files onto the ESP
Renaming ==
    \/ pc > StepIndex("CopyToEsp")
    \/ /\ AtStep("CopyToEsp")
       /\ iter > Len(CopyFiles(fs, GENERATED_ENTRIES))

\* in the first run: the ESP holds the new loader.conf only once CopyToEsp
\* renames, while the staging tree holds it from WriteLoader on, and the ESP
\* holds it when the run is done
C17_OnlyThroughCopy ==
    (call = NoCall /\ plan # <<>> /\ pc >= 1) =>
       /\ fs[ESP].loader_conf = Some(Rendered) => Renaming
       /\ AtStep("CopyToEsp") => fs[GENERATED_ENTRIES].loader_conf = Some(Rendered)
       /\ stage = "done" => fs[ESP].loader_conf = Some(Rendered)

\* C17: WriteLoader writes the rendered loader.conf to the staging tree and
\* leaves every file of the ESP as it is; the ESP gets the new loader.conf
\* only through the CopyToEsp step that follows.
C17_WriteLoaderOnlyStaging ==
    /\ []C17_OnlyThroughCopy
    /\ [][(Running /\ AtStep("WriteLoader")) => fs'[ESP] = fs[ESP]]_vars

\* WriteLoader has written the staging tree's loader.conf, the ESP still has
\* its old one
C17_Witness ==
    /\ call = NoCall
    /\ Running
    /\ AtStep("CopyToEsp")
    /\ iter = 0
    /\ fs[GENERATED_ENTRIES].loader_conf = Some(Rendered)
    /\ fs[ESP].loader_conf = Some(OLD_LOADER)

\* C18 as claimed: when no wanted generation is the toplevel, the loader.conf
\* the ESP had before the run is still there, unchanged, when the run is done.
C18_DefaultKept ==
    (stage = "done" /\ call = NoCall /\ Matching = {}) =>
       fs[ESP].loader_conf = fs0[ESP].loader_conf

----------------------------------------------------------------------------
(* Claims about ReplaceFiles.                                              *)

\* the checksum replace_file compares for content c of the pair `file`: that
\* of the content without its signature when signing is active and the file
\* is an .efi image, that of the content as it is otherwise
ComparedChecksum(file, signing_info, c) ==
    Checksum(Bytes(IF VerifiesFiles(file, signing_info) THEN StrippedFile(c) ELSE c))

\* the ReplaceFiles arm is about to handle a pair
Replacing == Running /\ AtStep("ReplaceFiles") /\ plan[pc].to_replace # <<>>

\* the line replace_file logs for a pair whose checksums differ
WillBeReplaced(file) ==
    Logged("warn!", "will be replaced", <<file.esp_loc, file.generated_loc>>)

\* one turn of ReplaceFiles: the ESP is left as it is; when the turn succeeds
\* the staged file is gone if the checksums are equal, and is left as it was,
\* with the line logged, if they differ
C13_ReplaceStep ==
    Replacing =>
        LET file == plan[pc].to_replace[iter + 1]
            g == ReadFile(fs, file.generated_loc)
            e == ReadFile(fs, file.esp_loc)
        IN  /\ fs'[ESP] = fs[ESP]
            /\ stage' # "failed" =>
                  /\ IsSome(g)
                  /\ IsSome(e)
                  /\ IF ComparedChecksum(file, plan[pc].signing_info, Unwrap(g))
                        = ComparedChecksum(file, plan[pc].signing_info, Unwrap(e))
                     THEN /\ ReadFile(fs', file.generated_loc) = None
                          /\ \A i \in 1..Len(cmds') : cmds'[i] # WillBeReplaced(file)
                     ELSE /\ ReadFile(fs', file.generated_loc) = g
                          /\ cmds'[Len(cmds')] = WillBeReplaced(file)

\* the content of a staged file when ReplaceFiles compares it: as generated,
\* and signed by SignFiles when signing is active and it is an .efi image
StagedContent(file) ==
    LET c == Unwrap(ReadFile(fs0, file.generated_loc))
    IN  IF VerifiesFiles(file, args.signing_info) THEN SignedFile(c) ELSE c

\* the checksums ReplaceFiles compares for the pair are equal
PairMatches(file) ==
    ComparedChecksum(file, args.signing_info, StagedContent(file))
    = ComparedChecksum(file, args.signing_info, Unwrap(ReadFile(fs0, file.esp_loc)))

\* the CopyToEsp step is over
Copied == plan # <<>> /\ pc > StepIndex("CopyToEsp")

\* after CopyToEsp the ESP file of a pair holds the staged content if the
\* checksums differed, and what it held before if they were equal
C13_AfterCopy ==
    Copied =>
        \A i \in 1..Len(identified.to_replace) :
            LET file == identified.to_replace[i]
            IN  ReadFile(fs, file.esp_loc) =
                   IF PairMatches(file)
                   THEN ReadFile(fs0, file.esp_loc)
                   ELSE Some(StagedContent(file))

IsVerify(c) == c.prog = SIGNING_INFO.sbverify

\* a logged failure of verify_file, as a warning or as the error returned
IsNotVerified(c) == c.prog \in {"warn!", "Err"} /\ c.args[1] = "could not be verified"

\* the ESP file of the pair of a staged file
EspLoc(generated_loc) == Join(ESP, generated_loc[2])

\* C14: in ReplaceFiles with signing active and an .efi candidate, a failed
\* verification of the staged file is the error the run ends with, before
\* anything is compared or copied; a failed verification of the ESP file is a
\* warning after which replace_file goes on; without signing, or for a file
\* that is not an .efi image, sbverify is not run.
C14_Verification ==
    \A i \in 1..Len(cmds) :
        LET c == cmds[i]
            file == c.args[Len(c.args)]
        IN  /\ IsVerify(c) => IsSome(args.signing_info) /\ IsEfi(file)
            /\ IsNotVerified(c) =>
                  /\ i > 1
                  /\ cmds[i - 1] = VerifyCommand(SIGNING_INFO, file)
                  /\ IF file[1] = GENERATED_ENTRIES
                     THEN /\ c.prog = "Err"
                          /\ i = Len(cmds)
                          /\ stage = "failed"
                          /\ AtStep("ReplaceFiles")
                          /\ IsSome(ReadFile(fs, file))
                          /\ fs[TMP_DIR] = NoTmpFiles
                          /\ fs[COPY_TMP] = NoTree
                          /\ ReadFile(fs, EspLoc(file)) = ReadFile(fs0, EspLoc(file))
                     ELSE /\ c.prog = "warn!"
                          /\ i < Len(cmds) => cmds[i + 1] = StripCommand(GENERATED_TMP)

\* the ESP file of a first pair was not verified and the pair was compared all
\* the same; the staged file of a second pair was not verified and the run
\* has failed
C14_Witness ==
    /\ stage = "failed"
    /\ Len(cmds) > 2
    /\ cmds[Len(cmds)].prog = "Err"
    /\ IsNotVerified(cmds[Len(cmds)])
    /\ \E i \in 1..(Len(cmds) - 2) :
          /\ cmds[i].prog = "warn!"
          /\ IsNotVerified(cmds[i])
          /\ cmds[i + 1] = StripCommand(GENERATED_TMP)
          /\ cmds[i + 2] = StripCommand(ESP_TMP)

\* the pairs of the list `files` a pass of replace_file over them reports as
\* differing, on the file system f
Replacements(f, files, signing_info) ==
    {files[i] : i \in {j \in 1..Len(files) :
                         \E r \in replace_file(f, files[j], signing_info) :
                            /\ r.ok
                            /\ r.cmds # <<>>
                            /\ r.cmds[Len(r.cmds)] = WillBeReplaced(files[j])}}

\* File Identification and ReplaceFiles have been run once, and nothing since
FirstPassOver ==
    /\ Running
    /\ plan # <<>>
    /\ pc = StepIndex("ReplaceFiles") + 1
    /\ iter = 0

\* the pairs the first pass reported as differing
FirstPass ==
    {file \in Range(identified.to_replace) :
        \E i \in 1..Len(cmds) : cmds[i] = WillBeReplaced(file)}

\* the candidate pairs File Identification finds when it is run again
SecondCandidates == IdentifiedFiles_new(fs, GENERATED_ENTRIES, ESP).to_replace

\* the pairs a second pass reports as differing
SecondPass == Replacements(fs, SecondCandidates, args.signing_info)

\* C20 as stated: File Identification and ReplaceFiles run twice in a row, with
\* no change in between, report no pair as differing the second time.
C20_NoReplacementTwice == FirstPassOver => SecondPass = {}

\* C20, amended: run twice in a row, with no change in between, File
\* Identification finds as candidates the second time exactly the pairs
\* ReplaceFiles reported as differing the first time, and ReplaceFiles
\* reports exactly these again; the pairs that matched are no candidates any
\* more, their staged files being deleted.
C20_SameReplacementsTwice ==
    FirstPassOver =>
        /\ Range(SecondCandidates) = FirstPass
        /\ SecondPass = FirstPass

\* a first pass is over in which a pair differed and another pair matched
C20_Witness ==
    /\ FirstPassOver
    /\ FirstPass # {}
    /\ Range(identified.to_replace) \ FirstPass # {}

----------------------------------------------------------------------------
(* Claims about the atomic copy.                                           *)

\* the path `<dest>.tmp`
DestDotTmp(dest) == <<dest[1], Rel(dest[2][1], dest[2][2] \o <<".">> \o TMP)>>

\* the paths of the ESP's entries, before and now
EntryPaths ==
    {Join(ESP, Rel(LOADER_ENTRIES, n)) :
        n \in DOMAIN fs[ESP].loader_entries \cup DOMAIN fs0[ESP].loader_entries}

\* C15: atomic_tmp_copy_file(source, dest) writes the content to `<dest>.tmp`
\* and renames it onto dest: at every point dest is absent or old, or new,
\* never written in part; after success dest holds the source's content, the
\* temporary path is gone and no other path was created, changed or removed.
C15_AtomicCopyFile ==
    call.fn = "atomic_tmp_copy_file" =>
        LET new == ReadFile(fs0, call.source)
        IN  /\ ReadFile(fs, call.dest) \in {ReadFile(fs0, call.dest), new}
            /\ \A p \in EntryPaths \ {call.dest, DestDotTmp(call.dest)} :
                  ReadFile(fs, p) = ReadFile(fs0, p)
            /\ stage = "done" =>
                  /\ ReadFile(fs, call.dest) = new
                  /\ ReadFile(fs, DestDotTmp(call.dest)) = None

\* the files the bulk copy of the CopyToEsp step copies
Staged == TreeFiles(fs[GENERATED_ENTRIES])

\* the number of these files
NStaged == Len(CopyFiles(fs, GENERATED_ENTRIES))

\* the bulk copy is in its first phase, or between the two phases, or has
\* failed there
BeforeRenames == AtStep("CopyToEsp") /\ iter <= NStaged

\* the bulk copy is in its rename phase, or has failed there
InRenames == AtStep("CopyToEsp") /\ iter >= NStaged

\* up to the rename phase every final path has the content it had before the
\* copy; in the rename phase it has this content or the whole staged content
C16_FinalPaths ==
    \A rel \in Staged :
        /\ BeforeRenames =>
              ReadFile(fs, Join(ESP, rel)) = ReadFile(fs0, Join(ESP, rel))
        /\ InRenames =>
              /\ ReadFile(fs, Join(GENERATED_ENTRIES, rel)) # Some(PARTIAL)
              /\ ReadFile(fs, Join(ESP, rel))
                    \in {ReadFile(fs0, Join(ESP, rel)),
                         ReadFile(fs, Join(GENERATED_ENTRIES, rel))}

\* a step of the first phase, the failing one included, leaves the ESP as it
\* is; a step of the rename phase changes final paths only to the whole
\* staged content
C16_CopyStep ==
    (Running /\ AtStep("CopyToEsp")) =>
        IF iter < NStaged
        THEN fs'[ESP] = fs[ESP]
        ELSE \A rel \in TreeFiles(fs[ESP]) \cup TreeFiles(fs'[ESP]) :
                ReadFile(fs', Join(ESP, rel))
                   \in {ReadFile(fs, Join(ESP, rel)),
                        ReadFile(fs, Join(GENERATED_ENTRIES, rel))}

\* C16: when the bulk copy of CopyToEsp fails or is interrupted in its first
\* phase, or between the first phase and the rename phase, every final path
\* of the ESP has the content it had before the copy; during the rename phase
\* each final path holds its whole old or its whole new content.
C16_BulkCopyAtomic ==
    /\ []C16_FinalPaths
    /\ [][C16_CopyStep]_vars
    /\ [][(stage = "failed" /\ AtStep("CopyToEsp")) => UNCHANGED fs]_vars

\* the first phase has failed for lack of space after a file was copied, and
\* has left a part of a file in the temporary tree, while the ESP has a file
\* that differs from the staged one
C16_Witness ==
    /\ stage = "failed"
    /\ AtStep("CopyToEsp")
    /\ iter >= 1
    /\ iter < NStaged
    /\ \E rel \in Staged :
          /\ ReadFile(fs, Join(COPY_TMP, rel)) = Some(PARTIAL)
          /\ IsSome(ReadFile(fs, Join(ESP, rel)))
          /\ ReadFile(fs, Join(ESP, rel)) # ReadFile(fs, Join(GENERATED_ENTRIES, rel))

----------------------------------------------------------------------------
(* Claims about a second run.                                              *)

\* what the installer manages on an ESP: the entries, the kernel and initrd
\* images and the loader configuration
Managed(t) == [efi_nixos |-> t.efi_nixos, loader_entries |-> t.loader_entries,
               loader_conf |-> t.loader_conf]

\* the pairs the ReplaceFiles arm has still to handle are there to be read
PairsReadable ==
    \A i \in (iter + 1)..Len(plan[pc].to_replace) :
        /\ IsSome(ReadFile(fs, plan[pc].to_replace[i].generated_loc))
        /\ IsSome(ReadFile(fs, plan[pc].to_replace[i].esp_loc))

\* C19 as claimed: the second run, with the same generations, options,
\* default generation and staging tree, on the ESP the first run left, whether
\* the first run succeeded or was killed between two steps, can succeed
\* (ReplaceFiles finds the files of its pairs); and when it is done after a
\* first run that succeeded, the entries, the images and the loader
\* configuration of the ESP are what they were after the first run.
C19_Idempotent ==
    (call.fn = "rerun" /\ defgen = call.defgen) =>
        /\ (Running /\ AtStep("ReplaceFiles")) => PairsReadable
        /\ (stage = "done" /\ call.first = "done") =>
              Managed(fs[ESP]) = Managed(call.esp)

----------------------------------------------------------------------------
(* Claims about the loader configuration.                                  *)

RECURSIVE Lines(_)
\* the lines of a text, each without its newline; what follows the last
\* newline, when there is something, is a last line
Lines(text) ==
    IF text = <<>> THEN <<>>
    ELSE LET nls == {i \in 1..Len(text) : text[i] = "\n"}
         IN  IF nls = {} THEN <<text>>
             ELSE LET i == CHOOSE k \in nls : \A j \in nls : k <= j
                  IN  <<SubSeq(text, 1, i - 1)>> \o Lines(SubSeq(text, i + 1, Len(text)))

\* the text create_loader_conf has returned
Contents == cmds[1]

\* C21: the loader configuration is, in this order, a `timeout <n>` line iff
\* a timeout is given, a `default nixos-generation-<index>.conf` line, an
\* `editor 0` line iff the editor is disabled and a `console-mode <mode>`
\* line; each line ends with a newline and there is nothing else.
C21_LoaderConf ==
    call.fn = "create_loader_conf" =>
        /\ Contents[Len(Contents)] = "\n"
        /\ Lines(Contents) =
              (IF call.timeout = None THEN <<>>
               ELSE <<TIMEOUT_ \o Dec(call.timeout[1])>>)
              \o <<DEFAULT_ \o NIXOS_ \o GENERATION_ \o Dec(call.idx) \o DOT \o CONF>>
              \o (IF call.editor THEN <<>> ELSE <<EDITOR_0>>)
              \o <<CONSOLE_MODE_ \o ModeChars(call.console_mode)>>

\* timeout 1, index 125, the editor enabled and mode max give the three lines
\* of the test
C21_Witness ==
    /\ call.fn = "create_loader_conf"
    /\ call.timeout = Some(1)
    /\ call.idx = 125
    /\ call.editor
    /\ call.console_mode = "max"
    /\ Contents = <<"t", "i", "m", "e", "o", "u", "t", " ", "1", "\n",
                    "d", "e", "f", "a", "u", "l", "t", " ", "n", "i", "x", "o", "s", "-",
                    "g", "e", "n", "e", "r", "a", "t", "i", "o", "n", "-", "1", "2", "5",
                    ".", "c", "o", "n", "f", "\n",
                    "c", "o", "n", "s", "o", "l", "e", "-", "m", "o", "d", "e", " ",
                    "m", "a", "x", "\n">>

----------------------------------------------------------------------------
(* Claims about the command line.                                          *)

\* the credentials given on the command line
Supplied ==
    {k \in {"signing_key", "signing_cert", "sbsign", "sbverify"} : IsSome(call[k])}

AllCredentials == {"signing_key", "signing_cert", "sbsign", "sbverify"}

\* nothing has been planned, run or changed
NothingDone == plan = <<>> /\ cmds = <<>> /\ fs = fs0 /\ pc = 0

\* C23: the four Secure Boot credentials are all or nothing: signing info is
\* present iff all four are given and absent iff none is given; each of the 14
\* partial combinations is rejected when the command line is read, before a
\* plan is built, a file is changed or a command is run.
C23_AllOrNothing ==
    call.fn = "argv" =>
        /\ stage \in {"argv", "rejected"} => NothingDone
        /\ stage # "argv" =>
              /\ stage = "rejected" <=> Supplied \notin {{}, AllCredentials}
              /\ stage # "rejected" =>
                    /\ IsSome(args.signing_info) <=> Supplied = AllCredentials
                    /\ ~IsSome(args.signing_info) <=> Supplied = {}
                    /\ IsSome(args.signing_info) =>
                          \A k \in AllCredentials : Unwrap(args.signing_info)[k] = Unwrap(call[k])

\* a command line with three of the four credentials has been rejected
C23_Witness ==
    /\ call.fn = "argv"
    /\ stage = "rejected"
    /\ Cardinality(Supplied) = 3
    /\ NothingDone

----------------------------------------------------------------------------
(* Claims about File Identification.                                       *)

\* the staged files, each with or without a file of the same relative path in the ESP
StagedWith == Globbed(STAGING_ROOT, call.staged \cap call.on_esp)
StagedWithout == Globbed(STAGING_ROOT, call.staged \ call.on_esp)

\* the relative path of a staged file: the path without its own root
OwnRel(path) == SubSeq(path, Len(STAGING_ROOT) + 1, Len(path))

EfiOnly(paths) ==
    LET is_efi(e) == Extension(file_name(e)) = Some(EFI)
    IN  SelectSeq(paths, is_efi)

\* C22: a staged file is a replacement candidate iff the ESP holds a file of
\* the same relative path, and it is paired with that file; to_sign is the
\* additions followed by the staged sides of the candidates, restricted to
\* .efi; ESP files without a staged counterpart are in neither list.
C22_Identification ==
    call.fn = "IdentifiedFiles::new" =>
        /\ [i \in 1..Len(identified.to_replace) |-> identified.to_replace[i].generated_loc]
              = StagedWith
        /\ \A i \in 1..Len(identified.to_replace) :
              identified.to_replace[i].esp_loc
                 = call.esp \o OwnRel(identified.to_replace[i].generated_loc)
        /\ identified.to_sign = EfiOnly(StagedWithout \o StagedWith)

----------------------------------------------------------------------------
(* Claims about pruning a fresh tree.                                      *)

\* the tree lacks its root, its efi/nixos or its loader/entries
FreshTree(t) == ~t.exists \/ ~t.has_efi_nixos \/ ~t.has_loader_entries

\* consume_plan is about to prune the tree at plan[pc].paths[iter + 1]
AboutToPrune ==
    /\ Running
    /\ pc \in 1..Len(plan)
    /\ plan[pc].kind = "PruneFiles"
    /\ iter < Len(plan[pc].paths)

\* C24: PruneFiles never fails on a fresh tree: when the root, efi/nixos or
\* loader/entries of a tree is missing, pruning that tree succeeds and deletes
\* nothing, and the executor goes on to the next tree, or to the next step
\* after the last tree.
C24_FreshTreeSkipped ==
    [][(AboutToPrune /\ FreshTree(fs[plan[pc].paths[iter + 1]])) =>
          /\ fs' = fs
          /\ stage' # "failed"
          /\ IF iter + 1 < Len(plan[pc].paths)
             THEN pc' = pc /\ iter' = iter + 1 /\ stage' = "running"
             ELSE pc' = pc + 1 /\ iter' = 0]_vars

\* both trees have been pruned; the ESP has no efi/nixos and still holds the
\* entry of generation 1, which is not wanted
C24_Witness ==
    /\ plan # <<>> /\ plan[1].kind = "PruneFiles"
    /\ stage = "done"
    /\ ~fs0.esp.has_efi_nixos
    /\ ConfFilename(1) \in DOMAIN fs.esp.loader_entries
    /\ \A i \in 1..Len(wanted) : wanted[i].idx # 1

----------------------------------------------------------------------------
(* Claims about several ESPs.                                              *)

\* the staging tree holds what it held when the installer was started, as far
\* as the wanted generations need it
StagingAsStarted ==
    LET t == fs[GENERATED_ENTRIES]
        t0 == fs0[GENERATED_ENTRIES]
        required == Range(get_required_file_paths(wanted))
    IN  /\ t.exists
        /\ \A name \in required \cap DOMAIN t0.loader_entries :
              name \in DOMAIN t.loader_entries /\ t.loader_entries[name] = t0.loader_entries[name]
        /\ \A name \in required \cap DOMAIN t0.efi_nixos :
              name \in DOMAIN t.efi_nixos /\ t.efi_nixos[name] = t0.efi_nixos[name]

\* C25: several ESPs are planned and executed one after the other and
\* independently: what an earlier ESP's plan did (the staged files ReplaceFiles
\* deleted, the staging tree CopyToEsp removed) does not change what a later
\* ESP gets: its plan starts from the staging tree the invocation started
\* with, and after a run in which every plan succeeded two ESPs that started
\* alike hold the same.
C25_IndependentEsps ==
    call.fn = "install" =>
        /\ (call.planned >= 2 /\ stage = "planned") => StagingAsStarted
        /\ (call.planned = Len(call.esp) /\ stage = "done" /\ fs0[ESP] = fs0[ESP2])
              => fs[ESP] = fs[ESP2]

----------------------------------------------------------------------------
(* Claims about the version probes.                                        *)

\* the lines of the status output that report a version
Reporting == {k \in 1..Len(call.status) : StatusLines[call.status[k]].version # 0}

----------------------------------------------------------------------------
(* Claims about the candidates of ReplaceFiles.                            *)

\* the candidates ReplaceFiles has not handled yet
PendingCandidates ==
    {plan[pc].to_replace[i] : i \in (iter + 1)..Len(plan[pc].to_replace)}

\* C27: every pair of the ReplaceFiles step is there on both sides when the
\* step is executed: the PruneFiles step before it deletes no file a candidate
\* refers to, so that no candidate is missing.
C27_CandidatesExist ==
    (Running /\ pc \in 1..Len(plan) /\ plan[pc].kind = "ReplaceFiles") =>
        \A file \in PendingCandidates :
            /\ IsSome(ReadFile(fs, file.generated_loc))
            /\ IsSome(ReadFile(fs, file.esp_loc))

----------------------------------------------------------------------------
(* Claims about the ESP after a run.                                       *)

\* the file name a loader.conf names in its `default` line, None without one
DefaultEntry(text) ==
    LET ls == Lines(text)
        found == {i \in 1..Len(ls) :
                    /\ Len(ls[i]) >= Len(DEFAULT_)
                    /\ SubSeq(ls[i], 1, Len(DEFAULT_)) = DEFAULT_}
    IN  IF found = {} THEN None
        ELSE LET i == CHOOSE i \in found : TRUE
             IN  Some(SubSeq(ls[i], Len(DEFAULT_) + 1, Len(ls[i])))

EspBefore == IF call = NoCall THEN fs0[ESP] ELSE call.esp

\* the staged content of a file of the staging tree's directory dir: as the
\* generator left it, signed when the run signs .efi images
StagedAs(dir, name) ==
    LET c == fs0[GENERATED_ENTRIES][dir][name]
    IN  IF IsSome(args.signing_info) /\ Extension(name) = Some(EFI)
        THEN SignedFile(c)
        ELSE c

\* the file name of directory dir that a wanted generation requires is in the
\* ESP, with the staged content when there was a staged copy
KeptInEsp(dir, name) ==
    /\ name \in DOMAIN fs0[GENERATED_ENTRIES][dir] \cup DOMAIN EspBefore[dir]
          => name \in DOMAIN fs[ESP][dir]
    /\ name \in DOMAIN fs0[GENERATED_ENTRIES][dir]
          => name \in DOMAIN fs[ESP][dir] /\ fs[ESP][dir][name] = StagedAs(dir, name)

\* C29: after every plan that was executed without an error, each file a
\* wanted generation requires that the staging tree or the ESP held before the
\* run is in the ESP, with the staged content whenever there was a staged copy.
C29_NothingLost ==
    stage = "done" =>
        \A name \in RequiredUnion(wanted) :
            KeptInEsp("loader_entries", name) /\ KeptInEsp("efi_nixos", name)

----------------------------------------------------------------------------
(* Claims about the artifact file names.                                   *)

\* the file names the generator staged under efi/nixos
StagedNames == DOMAIN fs[GENERATED_ENTRIES].efi_nixos

\* the path without the store prefix it starts with
AfterPrefix(path) == SubSeq(path, Len(STORE_PATH_PREFIX) + 1, Len(path))

\* s with "-" for every "/"
Flat(s) == [i \in 1..Len(s) |-> IF s[i] = "/" THEN "-" ELSE s[i]]

\* C30: the generator and the installer derive the same file name for an
\* artifact: for a kernel or initrd store path p the name staged under
\* efi/nixos is store_path_to_efi_filename(p); in unified mode both take the
\* first 32 characters after the store prefix and ".efi"; so no staged
\* artifact of the generation is old for PruneFiles.
C30_SameNames ==
    call.fn = "all_generations" =>
        /\ StagedNames = Range(cmds)
        /\ ~call.unified =>
              \A p \in {call.kernel, call.initrd} :
                 /\ file_name(linux_entry_dest(p)) = store_path_to_efi_filename(p).value
                 /\ file_name(linux_entry_dest(p)) \in StagedNames
        /\ call.unified =>
              /\ file_name(efi_entry_dest(call.toplevel)) = unified_filename(call.toplevel)
              /\ StagedNames = {SubSeq(AfterPrefix(call.toplevel), 1, STORE_HASH_LEN) \o DOT_EFI}
        /\ OldEfi(cmds, fs[GENERATED_ENTRIES]) = {}

\* the kernel /nix/store/<a..>-efi/some/file/here is staged as
\* <a..>-efi-some-file-here.efi, the name the installer requires
C30_Witness ==
    /\ call.fn = "all_generations"
    /\ ~call.unified
    /\ Len(call.kernel) > Len(STORE_PATH_PREFIX) + STORE_HASH_LEN + 5
    /\ \E i \in (Len(STORE_PATH_PREFIX) + 1)..Len(call.kernel) : call.kernel[i] = "/"
    /\ cmds[1] = Flat(AfterPrefix(call.kernel)) \o DOT_EFI
    /\ cmds[1] \in StagedNames

====
